---- MODULE Spec2Model ----
(***************************************************************************)
(* Model of XMLPaperParser (src/pdf_parser.py): the reconstruction of a    *)
(* section tree from the stream of <head>, <p> and other blocks of the     *)
(* <div>s of a TEI body, and of the way src/search.py calls it on one      *)
(* module-level parser instance.                                           *)
(*                                                                         *)
(* A text is the sequence of its characters, except that a maximal run of  *)
(* characters that are neither a digit, '.', '!', '?' nor a blank is one   *)
(* opaque token (a word).  Digits, punctuation and blanks are single       *)
(* characters, so the regular expressions of the parser are computed as    *)
(* the code computes them.  The only whitespace character is the blank.    *)
(***************************************************************************)
EXTENDS Integers, Sequences, FiniteSets, TLC

(***************************************************************************)
(* Texts                                                                   *)
(***************************************************************************)
Digits == {"0", "1", "2", "3", "4", "5", "6", "7", "8", "9"}

DigitVal(c) ==
  CASE c = "0" -> 0 [] c = "1" -> 1 [] c = "2" -> 2 [] c = "3" -> 3
    [] c = "4" -> 4 [] c = "5" -> 5 [] c = "6" -> 6 [] c = "7" -> 7
    [] c = "8" -> 8 [] c = "9" -> 9

\* str.lstrip() / str.rstrip() / str.strip()
RECURSIVE LStrip(_)
LStrip(t) == IF t # <<>> /\ Head(t) = " " THEN LStrip(Tail(t)) ELSE t

RECURSIVE RStrip(_)
RStrip(t) ==
  IF t # <<>> /\ t[Len(t)] = " " THEN RStrip(SubSeq(t, 1, Len(t) - 1)) ELSE t

Strip(t) == RStrip(LStrip(t))

\* F(v), the value v being computed once and then handed to F
Bind(v, F(_)) == CHOOSE r \in { F(w) : w \in { v } } : TRUE

\* t[i:] of Python, i counted from 1
Drop(t, n) == SubSeq(t, n + 1, Len(t))

\* length of the maximal run of digits at the start of t (regex \d+)
RECURSIVE DigitRun(_)
DigitRun(t) ==
  IF t # <<>> /\ Head(t) \in Digits THEN 1 + DigitRun(Tail(t)) ELSE 0

\* length of the prefix of t matched by the group ((?:\d+\.)*\d+); 0 = none
RECURSIVE AddrLen(_)
AddrLen(t) ==
  LET Run(d) ==
        IF d = 0 THEN 0
        ELSE IF Len(t) >= d + 2 /\ t[d + 1] = "." /\ t[d + 2] \in Digits
             THEN d + 1 + Bind(Drop(t, d + 1), AddrLen)
             ELSE d
  IN Bind(DigitRun(t), Run)

\* int(num) of a run of digits
RECURSIVE ParseInt(_)
ParseInt(ds) ==
  IF ds = <<>> THEN 0
  ELSE 10 * ParseInt(SubSeq(ds, 1, Len(ds) - 1)) + DigitVal(ds[Len(ds)])

\* [int(num) for num in group.split('.')] of a matched address
RECURSIVE ParseAddr(_)
ParseAddr(a) ==
  LET Run(d) ==
        IF Len(a) = d THEN << ParseInt(a) >>
        ELSE << ParseInt(SubSeq(a, 1, d)) >> \o Bind(Drop(a, d + 1), ParseAddr)
  IN Bind(DigitRun(a), Run)

\* SECTION_PATTERN = ^((?:\d+\.)*\d+)\.?(?:\s+(.*?))?$ ; the result of
\* findall: <<>> when nothing matches, else << <<group 1, group 2>> >>
SECTION_PATTERN(t) ==
  LET Matched(a) ==
        LET r0   == Drop(t, a)
            rest == IF r0 # <<>> /\ Head(r0) = "." THEN Tail(r0) ELSE r0
        IN IF a = 0 THEN <<>>
           ELSE IF rest = <<>> THEN << << SubSeq(t, 1, a), <<>> >> >>
           ELSE IF Head(rest) = " "
           THEN << << SubSeq(t, 1, a), LStrip(rest) >> >>
           ELSE <<>>
  IN Bind(AddrLen(t), Matched)

\* SECTION_NUMBER_PATTERN = ^((?:\d+\.)*\d+)\.\s+ ; the result of match:
\* <<>> when it does not match, else << group 1 >>
SECTION_NUMBER_PATTERN(t) ==
  LET Matched(a) ==
        IF a > 0 /\ Len(t) >= a + 2 /\ t[a + 1] = "." /\ t[a + 2] = " "
        THEN << SubSeq(t, 1, a) >>
        ELSE <<>>
  IN Bind(AddrLen(t), Matched)

\* text.split(".", 1)
RECURSIVE DotAt(_, _)
DotAt(t, i) ==
  IF i > Len(t) THEN 0 ELSE IF t[i] = "." THEN i ELSE DotAt(t, i + 1)

SplitDot(t) ==
  LET i == DotAt(t, 1) IN
  IF i = 0 THEN << t >> ELSE << SubSeq(t, 1, i - 1), Drop(t, i) >>

\* '.' in text
HasDot(t) == DotAt(t, 1) # 0

\* re.split(r'(?<=[.!?])\s+', text, 1)
RECURSIVE BoundaryAt(_, _)
BoundaryAt(t, i) ==
  IF i > Len(t) THEN 0
  ELSE IF t[i] = " " /\ t[i - 1] \in {".", "!", "?"} THEN i
  ELSE BoundaryAt(t, i + 1)

SplitSentence(t) ==
  LET i == BoundaryAt(t, 2) IN
  IF i = 0 THEN << t >> ELSE << SubSeq(t, 1, i - 1), LStrip(Drop(t, i - 1)) >>

\* The words of the vocabulary whose lower-case form starts with an entry of
\* NON_SECTION_KEYWORDS ('fig', 'table', 'definition', 'example', ...).
KeywordWords ==
  {"Table", "table", "Tablet", "Figure", "Figurative", "Fig", "Definitions",
   "Examples", "Theorem", "Proof", "Appendix", "Algorithm"}

\* any(text_lower.startswith(x) for x in self.NON_SECTION_KEYWORDS), with
\* text_lower = text.lower().strip(): a keyword is made of letters only, so
\* the first token of the stripped text decides.
StartsWithKeyword(t) ==
  LET s == Strip(t) IN s # <<>> /\ Head(s) \in KeywordWords

(***************************************************************************)
(* HTMLSection objects and self.current_section_hierarchy                  *)
(*                                                                         *)
(* HTMLSection objects are shared by reference between the hierarchy of    *)
(* the parser and the section lists of the parse calls, so they live in a  *)
(* heap: a sequence of records addressed by index (0 is None).  A parser   *)
(* state P is the record                                                   *)
(*   heap, hier   the objects and self.current_section_hierarchy           *)
(*   sections     the HTMLSections the call has produced so far            *)
(*   cur, hsi     current_section and has_section_index of the division    *)
(*   exc          an exception has been raised                             *)
(*   unrecov      a heading address was met that was inconsistent with     *)
(*                the stack and had no frame's numbers as a prefix         *)
(***************************************************************************)
HTMLSection(numbers, level, title, paragraphs) ==
  [numbers |-> numbers, level |-> level, title |-> title,
   paragraphs |-> paragraphs]

IsPrefix(a, b) == Len(a) <= Len(b) /\ a = SubSeq(b, 1, Len(a))

\* the loop "for i, j in zip(current, new_numbers)" of _compare_section_levels
RECURSIVE ZipScan(_, _, _)
ZipScan(current, new, k) ==
  IF k > Len(current) \/ k > Len(new) THEN 2
  ELSE IF new[k] = current[k] + 1 THEN -1
  ELSE IF current[k] # new[k] THEN 2
  ELSE ZipScan(current, new, k + 1)

\* 1: child (or first section), 0: sibling, -1: higher level, 2: inconsistent
CompareSectionLevels(heap, hier, new) ==
  IF hier = <<>> THEN 1
  ELSE LET current == heap[hier[Len(hier)]].numbers IN
    IF /\ Len(new) = Len(current) + 1
       /\ SubSeq(new, 1, Len(new) - 1) = current
       /\ new[Len(new)] \in {0, 1}
    THEN 1
    ELSE IF /\ Len(new) = Len(current)
            /\ SubSeq(new, 1, Len(new) - 1) = SubSeq(current, 1, Len(current) - 1)
            /\ new[Len(new)] = current[Len(current)] + 1
    THEN 0
    ELSE ZipScan(current, new, 1)

\* relation -1: pop frames until the new numbers are a prefix of the top's
RECURSIVE PopToLevel(_, _, _)
PopToLevel(heap, hier, numbers) ==
  IF hier = <<>> THEN hier
  ELSE IF IsPrefix(numbers, heap[hier[Len(hier)]].numbers) THEN hier
  ELSE PopToLevel(heap, SubSeq(hier, 1, Len(hier) - 1), numbers)

\* relation 2: keep the frames, from the bottom, while they are a prefix of
\* the new numbers
RECURSIVE CommonAncestors(_, _, _)
CommonAncestors(heap, hier, numbers) ==
  IF hier = <<>> THEN <<>>
  ELSE IF IsPrefix(heap[Head(hier)].numbers, numbers)
       THEN << Head(hier) >> \o CommonAncestors(heap, Tail(hier), numbers)
       ELSE <<>>

\* _update_section_hierarchy; the new HTMLSection is the last of the heap
UpdateSectionHierarchy(P, numbers0, title, text) ==
  LET Updated(numbers) ==
        LET section_data == HTMLSection(numbers, Len(numbers), title,
                                        IF text # <<>> THEN << text >> ELSE <<>>)
            noPrefix == \A i \in 1..Len(P.hier) :
                           ~ IsPrefix(P.heap[P.hier[i]].numbers, numbers)
            Related(relation) ==
              [P EXCEPT
                 !.heap = Append(P.heap, section_data),
                 !.hier = Append(
                            IF relation = -1
                            THEN PopToLevel(P.heap, P.hier, numbers)
                            ELSE IF relation = 2
                            THEN CommonAncestors(P.heap, P.hier, numbers)
                            ELSE P.hier,
                            Len(P.heap) + 1),
                 !.unrecov = P.unrecov \/ (relation = 2 /\ noPrefix)]
        IN Bind(CompareSectionLevels(P.heap, P.hier, numbers), Related)
  IN Bind(IF numbers0 = <<>>
          THEN IF P.hier # <<>>
               THEN P.heap[P.hier[Len(P.hier)]].numbers \o << 1 >>
               ELSE << 1 >>
          ELSE numbers0,
          Updated)

(***************************************************************************)
(* Block Classifier                                                        *)
(***************************************************************************)
\* str.rstrip('.')
RECURSIVE RStripDots(_)
RStripDots(t) ==
  IF t # <<>> /\ t[Len(t)] = "." THEN RStripDots(SubSeq(t, 1, Len(t) - 1)) ELSE t

\* _parse_section_number: [numbers, title, exc]; numbers = <<>> is None.
\* For a "p" the title is the list made by the sentence split.
ParseSectionNumber(text0, element_type, n_attr) ==
  LET Stripped(text) ==
        LET none == [numbers |-> <<>>, title |-> text, exc |-> FALSE]
            ByAttr(byAttr) ==
              [numbers |-> ParseAddr(byAttr[1][1]),
               title   |-> IF text # <<>> THEN text ELSE Strip(byAttr[1][2]),
               exc     |-> FALSE]
            ByText(byText) ==
              IF byText # <<>>
              THEN [numbers |-> ParseAddr(byText[1][1]),
                    title   |-> Strip(byText[1][2]), exc |-> FALSE]
              ELSE none
            Rest(byNum, rest) ==
              IF rest = <<>>
              THEN [none EXCEPT !.exc = TRUE]             \* text[0]: IndexError
              ELSE [numbers |-> ParseAddr(byNum[1]),
                    title   |-> SplitSentence(
                                  IF Head(rest) = "." THEN LStrip(Tail(rest))
                                  ELSE rest),
                    exc     |-> FALSE]
            ByNum(byNum) ==
              IF byNum # <<>>
              THEN Bind(LStrip(Drop(text, Len(byNum[1]))),
                        LAMBDA rest : Rest(byNum, rest))
              ELSE none
            NoAttr ==
              IF text = <<>> THEN none
              ELSE IF element_type = "head"
              THEN Bind(SECTION_PATTERN(text), ByText)
              ELSE Bind(SECTION_NUMBER_PATTERN(text), ByNum)
            Attr(byAttr) == IF byAttr # <<>> THEN ByAttr(byAttr) ELSE NoAttr
        IN IF element_type = "head" /\ n_attr # <<>> /\ Strip(n_attr) # <<>>
           THEN Bind(SECTION_PATTERN(RStripDots(Strip(n_attr))), Attr)
           ELSE NoAttr
  IN Bind(Strip(text0), Stripped)

\* _parse_section_title_from_p without the check of the numbers of a
\* paragraph against the hierarchy
ParseSectionTitleFromPNoCheck(P, text0, element_type, n_attr) ==
  LET none == [numbers |-> <<>>, title |-> <<>>, exc |-> FALSE]
      Parsed(text) ==
        IF StartsWithKeyword(text) THEN none
        ELSE ParseSectionNumber(text, element_type, <<>>)
  IN Bind(IF element_type = "head" /\ n_attr # <<>> /\ Strip(n_attr) # <<>>
          THEN Strip(n_attr) \o << " " >> \o text0
          ELSE text0,
          Parsed)

\* _parse_section_title_from_p: the n attribute is put in front of the text
\* and is not handed on to _parse_section_number
ParseSectionTitleFromP(P, text0, element_type, n_attr) ==
  LET none == [numbers |-> <<>>, title |-> <<>>, exc |-> FALSE]
      Checked(r) ==
        IF r.exc THEN r
        ELSE IF r.numbers # <<>>
                /\ (element_type = "head"
                    \/ CompareSectionLevels(P.heap, P.hier, r.numbers) # 2)
        THEN r
        ELSE none
      Parsed(text) ==
        IF StartsWithKeyword(text) THEN none
        ELSE Bind(ParseSectionNumber(text, element_type, <<>>), Checked)
  IN Bind(IF element_type = "head" /\ n_attr # <<>> /\ Strip(n_attr) # <<>>
          THEN Strip(n_attr) \o << " " >> \o text0
          ELSE text0,
          Parsed)

(***************************************************************************)
(* _parse_div_with_complex_paragraphs, one child of the division at a time *)
(***************************************************************************)
Top(P) == P.hier[Len(P.hier)]

AddParagraph(P, id, text) ==
  [P EXCEPT !.heap[id].paragraphs = Append(@, text)]

\* current_section = <the section just made>; sections.append(current_section)
Opened(P) ==
  [P EXCEPT !.cur = Len(P.heap), !.sections = Append(@, Len(P.heap))]

\* child.tag == head, without "has_section_index = False": the division
\* stays in numbered mode after a first heading without numbers
HeadBlockKeepsMode(P, blk) ==
  LET Classified(r) ==
        IF r.exc THEN [P EXCEPT !.exc = TRUE]
        ELSE IF P.hsi /\ r.numbers # <<>>
        THEN Bind(UpdateSectionHierarchy(P, r.numbers, r.title, <<>>), Opened)
        ELSE IF P.hier = <<>> \/ ~ P.hsi
        THEN Opened([P EXCEPT
                       !.heap = Append(@, HTMLSection(<<>>, -1, blk.text, <<>>)),
                       !.hier = Append(@, Len(P.heap) + 1)])
        ELSE IF P.cur # 0 /\ blk.text # <<>>
        THEN AddParagraph(P, P.cur, blk.text)
        ELSE P
  IN Bind(ParseSectionTitleFromP(P, blk.text, "head", blk.n), Classified)

\* child.tag == head
HeadBlock(P, blk) ==
  LET Classified(r) ==
        IF r.exc THEN [P EXCEPT !.exc = TRUE]
        ELSE IF P.hsi /\ r.numbers # <<>>
        THEN Bind(UpdateSectionHierarchy(P, r.numbers, r.title, <<>>), Opened)
        ELSE IF P.hier = <<>> \/ ~ P.hsi
        THEN Opened([P EXCEPT
                       !.hsi = FALSE,
                       !.heap = Append(@, HTMLSection(<<>>, -1, blk.text, <<>>)),
                       !.hier = Append(@, Len(P.heap) + 1)])
        ELSE IF P.cur # 0 /\ blk.text # <<>>
        THEN AddParagraph(P, P.cur, blk.text)
        ELSE P
  IN Bind(ParseSectionTitleFromP(P, blk.text, "head", blk.n), Classified)

\* "普通段" without "情形3": the title of the open section is never filled in
PlainParagraphNoFill(P, text0) ==
  IF text0 = <<>> THEN P
  ELSE IF P.cur # 0 THEN AddParagraph(P, P.cur, text0)
  ELSE IF P.hier # <<>> THEN AddParagraph(P, Top(P), text0)
  ELSE IF Len(SplitDot(text0)) # 2 THEN [P EXCEPT !.exc = TRUE]
  ELSE Opened([P EXCEPT
                 !.heap = Append(@, HTMLSection(<< 1 >>, 1, SplitDot(text0)[1],
                                                << SplitDot(text0)[2] >>)),
                 !.hier = Append(@, Len(P.heap) + 1)])

\* child.tag == p, the text holds no section number ("普通段")
PlainParagraph(P, text0) ==
  LET \* "if text:" and what follows it
      Attach(P1, text, first) ==
        IF text = <<>> THEN P1
        ELSE IF P1.cur # 0 THEN AddParagraph(P1, P1.cur, text)
        ELSE IF P1.hier # <<>> THEN AddParagraph(P1, Top(P1), text)
        ELSE IF Len(first) # 2 THEN [P1 EXCEPT !.exc = TRUE]  \* ValueError
        ELSE Opened([P1 EXCEPT
                       !.heap = Append(@, HTMLSection(<< 1 >>, 1, first[1],
                                                      << first[2] >>)),
                       !.hier = Append(@, Len(P1.heap) + 1)])
      \* "情形3": the title of the open section is filled in
      Filled(sp) ==
        Bind([P EXCEPT !.heap[P.cur].title = sp[1]],
             LAMBDA P1 : Bind(LStrip(sp[2]),
                              LAMBDA text : Bind(SplitDot(text),
                                LAMBDA first : Attach(P1, text, first))))
  IN IF P.cur # 0 /\ P.hsi /\ P.heap[P.cur].title = <<>> /\ HasDot(text0)
     THEN Bind(SplitDot(text0), Filled)
     ELSE Bind(SplitDot(text0), LAMBDA first : Attach(P, text0, first))

\* child.tag == p
ParagraphBlock(P, blk) ==
  LET none == [numbers |-> <<>>, title |-> <<>>, exc |-> FALSE]
      Classified(r) ==
        IF r.exc THEN [P EXCEPT !.exc = TRUE]
        ELSE IF r.numbers # <<>>
        THEN IF Len(r.title) # 2 THEN [P EXCEPT !.exc = TRUE] \* ValueError
             ELSE Bind(UpdateSectionHierarchy(P, r.numbers, r.title[1],
                                              r.title[2]),
                       Opened)
        ELSE PlainParagraph(P, blk.text)
  IN Bind(IF P.hsi THEN ParseSectionTitleFromP(P, blk.text, "p", <<>>)
          ELSE none,
          Classified)

\* any other child: its text is added even when it is empty
OtherBlock(P, blk) ==
  IF P.cur # 0 THEN AddParagraph(P, P.cur, blk.text)
  ELSE IF P.hier # <<>> THEN AddParagraph(P, Top(P), blk.text)
  ELSE P

ParseChild(P0, blk0) ==
  LET Tagged(P, blk) ==
        IF blk.kind = "head" THEN HeadBlock(P, blk)
        ELSE IF blk.kind = "p" THEN ParagraphBlock(P, blk)
        ELSE OtherBlock(P, blk)
  IN Bind(P0, LAMBDA P : Bind(blk0, LAMBDA blk : Tagged(P, blk)))

\* the start of _parse_div_with_complex_paragraphs
EnterDiv(P) ==
  [P EXCEPT !.cur = 0,
            !.hsi = (P.hier = <<>> \/ P.heap[Top(P)].level >= 0)]

(***************************************************************************)
(* Paper, Section, Paragraph (src/paper_elements.py)                       *)
(*                                                                         *)
(* The Sections of a Paper are the nodes of an arena: node i is nodes[i],  *)
(* 0 names the Paper itself and None is the father of the Paper.  A node   *)
(* also remembers the numbers of the HTMLSection it was built from (<<>>   *)
(* for a Section made to fill a missing level).                            *)
(***************************************************************************)
None == -1

Paragraph(father, text) == [father |-> father, text |-> text]

Section(name, father, numbers) ==
  [name |-> name, father |-> father, paragraphs |-> <<>>, children |-> <<>>,
   numbers |-> numbers]

\* Paper(name="root", father=None)
Paper ==
  [nodes |-> <<>>, paragraphs |-> <<>>, children |-> <<>>,
   has_section_index |-> TRUE]

FatherOf(paper, id) == IF id = 0 THEN None ELSE paper.nodes[id].father

\* add_child that puts every child into the children of the Paper
add_child_to_paper(paper, father, child) ==
  [paper EXCEPT !.children = Append(@, child)]

\* add_child that puts the child before the children already there
add_child_first(paper, father, child) ==
  IF father = 0 THEN [paper EXCEPT !.children = << child >> \o @]
  ELSE [paper EXCEPT !.nodes[father].children = << child >> \o @]

\* father.add_child(child)
add_child(paper, father, child) ==
  IF father = 0 THEN [paper EXCEPT !.children = Append(@, child)]
  ELSE [paper EXCEPT !.nodes[father].children = Append(@, child)]

\* paper.add_paragraph(Paragraph(father=paper, text=text))
add_paragraph(paper, text) ==
  [paper EXCEPT !.paragraphs = Append(@, Paragraph(0, text))]

RECURSIVE ToParagraphs(_, _)
ToParagraphs(father, texts) ==
  IF texts = <<>> THEN <<>>
  ELSE << Paragraph(father, Head(texts)) >> \o ToParagraphs(father, Tail(texts))

\* str(n) of a natural number
RECURSIVE Str(_)
Str(n) ==
  IF n < 10 THEN << CHOOSE c \in Digits : DigitVal(c) = n >>
  ELSE Str(n \div 10) \o << CHOOSE c \in Digits : DigitVal(c) = n % 10 >>

\* [{"text": p.text} for p in self.paragraphs]
RECURSIVE TextItems(_)
TextItems(paragraphs) ==
  IF paragraphs = <<>> THEN <<>>
  ELSE << [kind |-> "text", of |-> Head(paragraphs).father,
           text |-> Head(paragraphs).text] >>
         \o TextItems(Tail(paragraphs))

\* Section.get_skeleton(section_id) of node id and, for the children i.. of
\* a Section or of the Paper, s.get_skeleton(f"{section_id}{i + 1}.") with
\* the i of enumerate counted from 0.  An item of the skeleton is a marker
\* string or a paragraph record; "of" remembers the node it was written for.
RECURSIVE Section_get_skeleton(_, _, _)
RECURSIVE ChildSkeletons(_, _, _, _)
Section_get_skeleton(paper, id, section_id) ==
  << [kind |-> "marker", of |-> id,
      text |-> << "\n", "Section", " " >> \o section_id \o << " " >>
                 \o paper.nodes[id].name \o << "\n" >>] >>
    \o TextItems(paper.nodes[id].paragraphs)
    \o ChildSkeletons(paper, paper.nodes[id].children, section_id, 1)

ChildSkeletons(paper, children, section_id, i) ==
  IF i > Len(children) THEN <<>>
  ELSE Section_get_skeleton(paper, children[i],
                            section_id \o Str(i) \o << "." >>)
         \o ChildSkeletons(paper, children, section_id, i + 1)

\* Paper.get_skeleton()
Paper_get_skeleton(paper) ==
  TextItems(paper.paragraphs) \o ChildSkeletons(paper, paper.children, <<>>, 1)

(***************************************************************************)
(* Tree Builder: the try block of _extract_body_sections.  B is the record *)
(* paper, last_chapter, current_level, father_section, exc.                *)
(***************************************************************************)
\* Backtrack with "if" in the place of "while": one level up at most
BacktrackOnce(B, section) ==
  LET i  == B.current_level - 1
      up == IF B.father_section = None
            THEN [B EXCEPT !.exc = TRUE]
            ELSE [B EXCEPT
                   !.father_section = FatherOf(B.paper, B.father_section),
                   !.current_level = @ - 1]
  IN IF B.current_level > section.level THEN up
     ELSE IF B.current_level >= 2
     THEN IF i > Len(section.numbers) \/ i > Len(B.last_chapter)
          THEN [B EXCEPT !.exc = TRUE]
          ELSE IF section.numbers[i] # B.last_chapter[i] THEN up
          ELSE B
     ELSE B

\* "需要回溯": the first while loop
RECURSIVE Backtrack(_, _)
Backtrack(B, section) ==
  LET i  == B.current_level - 1
      up == IF B.father_section = None
            THEN [B EXCEPT !.exc = TRUE]                    \* None.father
            ELSE Bind([B EXCEPT
                        !.father_section = FatherOf(B.paper, B.father_section),
                        !.current_level = @ - 1],
                      LAMBDA B1 : Backtrack(B1, section))
  IN IF B.current_level > section.level THEN up
     ELSE IF B.current_level >= 2
     THEN IF i > Len(section.numbers) \/ i > Len(B.last_chapter)
          THEN [B EXCEPT !.exc = TRUE]                      \* IndexError
          ELSE IF section.numbers[i] # B.last_chapter[i] THEN up
          ELSE B
     ELSE B

\* the tree builder without its second while loop: no level is filled
FillNoLevels(B, section) == B

\* the second loop as an "if": one level at most is filled
FillOneLevel(B, section) ==
  IF B.exc \/ B.current_level >= section.level THEN B
  ELSE IF B.father_section = None THEN [B EXCEPT !.exc = TRUE]
  ELSE LET id == Len(B.paper.nodes) + 1
           p1 == [B.paper EXCEPT
                    !.nodes = Append(@, Section(<<>>, B.father_section, <<>>))]
       IN [B EXCEPT
             !.paper = add_child(p1, B.father_section, id),
             !.father_section = id,
             !.current_level = @ + 1]

\* "一次进两级，说明丢失了其中的一级": the second while loop
RECURSIVE FillLevels(_, _)
FillLevels(B, section) ==
  IF B.exc \/ B.current_level >= section.level THEN B
  ELSE IF B.father_section = None THEN [B EXCEPT !.exc = TRUE]
  ELSE LET id == Len(B.paper.nodes) + 1
           p1 == [B.paper EXCEPT
                    !.nodes = Append(@, Section(<<>>, B.father_section, <<>>))]
       IN Bind([B EXCEPT
                  !.paper = add_child(p1, B.father_section, id),
                  !.father_section = id,
                  !.current_level = @ + 1],
               LAMBDA B1 : FillLevels(B1, section))

\* the body of "for section in pseudo_sections"
BuildSection(B, section) ==
  LET Chaptered(F) ==
        IF F.exc THEN F ELSE [F EXCEPT !.last_chapter = section.numbers]
      Levelled(B0) ==
        Bind(Bind(Bind(B0, LAMBDA b : Backtrack(b, section)),
                  LAMBDA b : FillLevels(b, section)),
             Chaptered)
      Added(B1) ==
        LET id == Len(B1.paper.nodes) + 1
            new_section ==
              [Section(section.title, B1.father_section, section.numbers)
                 EXCEPT !.paragraphs = ToParagraphs(id, section.paragraphs)]
            p1 == [B1.paper EXCEPT !.nodes = Append(@, new_section)]
        IN IF B1.exc THEN B1
           ELSE IF B1.father_section = None THEN [B1 EXCEPT !.exc = TRUE]
           ELSE IF B1.paper.has_section_index
           THEN [B1 EXCEPT !.paper = add_child(p1, B1.father_section, id),
                           !.current_level = section.level + 1,
                           !.father_section = id]
           ELSE [B1 EXCEPT !.paper = add_child(p1, B1.father_section, id)]
  IN Bind(IF B.paper.has_section_index THEN Levelled(B) ELSE B, Added)

RECURSIVE BuildAll(_, _)
BuildAll(B, pseudo_sections) ==
  IF B.exc \/ pseudo_sections = <<>> THEN B
  ELSE Bind(Bind(Head(pseudo_sections), LAMBDA section : BuildSection(B, section)),
            LAMBDA B1 : BuildAll(B1, Tail(pseudo_sections)))

\* the try block; pseudo_sections[0] of an empty list raises IndexError
BuildTree(paper, pseudo_sections) ==
  LET B0 == [paper |-> paper, last_chapter |-> << 1 >>, current_level |-> 1,
             father_section |-> 0, exc |-> FALSE]
  IN IF pseudo_sections = <<>> THEN [B0 EXCEPT !.exc = TRUE]
     ELSE BuildAll(
            [B0 EXCEPT !.paper.has_section_index =
                          IF pseudo_sections[1].level = -1 THEN FALSE ELSE @],
            pseudo_sections)

(***************************************************************************)
(* Fallback Degrader: _fallback_parse_paragraphs                           *)
(***************************************************************************)
\* the walk of one division without the "if text_buffer:" after the loop
RECURSIVE FallbackDivNoTrailing(_, _, _)
FallbackDivNoTrailing(paper, text_buffer, children) ==
  IF children = <<>> THEN paper
  ELSE LET child == Head(children) IN
       IF child.kind = "head"
       THEN FallbackDivNoTrailing(paper,
              text_buffer \o (IF child.n # <<>>
                              THEN child.n \o << " " >> \o child.text
                              ELSE child.text),
              Tail(children))
       ELSE FallbackDivNoTrailing(
              add_paragraph(paper, text_buffer \o << " " >> \o child.text),
              <<>>, Tail(children))

RECURSIVE FallbackDiv(_, _, _)
FallbackDiv(paper, text_buffer, children) ==
  IF children = <<>>
  THEN IF text_buffer # <<>> THEN add_paragraph(paper, text_buffer) ELSE paper
  ELSE LET child == Head(children) IN
       IF child.kind = "head"
       THEN FallbackDiv(paper,
              text_buffer \o (IF child.n # <<>>
                              THEN child.n \o << " " >> \o child.text
                              ELSE child.text),
              Tail(children))
       ELSE FallbackDiv(
              add_paragraph(paper, text_buffer \o << " " >> \o child.text),
              <<>>, Tail(children))

RECURSIVE fallback_parse_paragraphs(_, _)
fallback_parse_paragraphs(paper, divs) ==
  IF divs = <<>> THEN paper
  ELSE fallback_parse_paragraphs(FallbackDiv(paper, <<>>, Head(divs)), Tail(divs))

\* the part of _extract_body_sections after the divisions have been parsed:
\* the paper that parse returns and the number of runs of the fallback
RECURSIVE Deref(_, _)
Deref(heap, ids) ==
  IF ids = <<>> THEN <<>> ELSE << heap[Head(ids)] >> \o Deref(heap, Tail(ids))

ExtractBodySections(paper, pseudo_sections, divs) ==
  LET Built(B) ==
        IF B.exc
        THEN [paper |-> fallback_parse_paragraphs(B.paper, divs), fallbacks |-> 1]
        ELSE [paper |-> B.paper, fallbacks |-> 0]
  IN Bind(Bind(pseudo_sections, LAMBDA ps : BuildTree(paper, ps)), Built)

(***************************************************************************)
(* _extract_text_from_element.  An element has a tag, its text, its tail   *)
(* and its children; a text or a tail is absent (None) or a string.        *)
(***************************************************************************)
Absent == [present |-> FALSE, s |-> <<>>]

Some(s) == [present |-> TRUE, s |-> s]

\* "if element.text:": neither None nor the empty string
Truthy(o) == o.present /\ o.s # <<>>

Element(tag, text, tail, children) ==
  [tag |-> tag, text |-> text, tail |-> tail, children |-> children]

\* process_elem without "and depth > 0": the tail of the element itself is
\* added too
RECURSIVE process_elem_with_tail(_, _)
process_elem_with_tail(element, depth) ==
  LET RECURSIVE kids(_)
      kids(cs) == IF cs = <<>> THEN <<>>
                  ELSE process_elem_with_tail(Head(cs), depth + 1)
                         \o kids(Tail(cs))
  IN (IF Truthy(element.text) THEN element.text.s ELSE <<>>)
       \o (IF element.tag # "ref" THEN kids(element.children) ELSE <<>>)
       \o (IF Truthy(element.tail) THEN element.tail.s ELSE <<>>)

\* what process_elem appends to current_text, in order
RECURSIVE process_elem(_, _)
process_elem(element, depth) ==
  LET RECURSIVE kids(_)
      kids(cs) == IF cs = <<>> THEN <<>>
                  ELSE process_elem(Head(cs), depth + 1) \o kids(Tail(cs))
  IN (IF Truthy(element.text) THEN element.text.s ELSE <<>>)
       \o (IF element.tag # "ref" THEN kids(element.children) ELSE <<>>)
       \o (IF Truthy(element.tail) /\ depth > 0 THEN element.tail.s ELSE <<>>)

\* ''.join(current_text).strip()
extract_text_from_element(element) == Strip(process_elem(element, 0))

(***************************************************************************)
(* Inputs: a document is the body of a TEI tree, a sequence of divisions,  *)
(* each the sequence of its children.  A child has a kind (head, p or any  *)
(* other tag), its extracted text (stripped, as _extract_text_from_element *)
(* returns it) and the value of its n attribute (<<>> when it has none).   *)
(***************************************************************************)
Blk(kind, n, text) == [kind |-> kind, n |-> n, text |-> text]

Doc(divs) == [body |-> TRUE, divs |-> divs]

\* a document without a <body>
NoBodyDoc == [body |-> FALSE, divs |-> <<>>]

SeqsUpTo(S, n) == UNION { [1..k -> S] : k \in 0..n }

\* the divisions of the children s, a new division starting at every i with
\* cut[i]
RECURSIVE Divide(_, _, _)
Divide(s, cut, i) ==
  IF i > Len(s) THEN <<>>
  ELSE LET rest == Divide(s, cut, i + 1) IN
       IF rest = <<>> \/ cut[i + 1] THEN << << s[i] >> >> \o rest
       ELSE << << s[i] >> \o Head(rest) >> \o Tail(rest)

\* every document of at most n children drawn from blocks, in any division
\* into non-empty divisions
DocsOf(blocks, n) ==
  { Doc(Divide(s, cut, 1)) :
      s \in SeqsUpTo(blocks, n) \ { <<>> },
      cut \in [2..(n + 1) -> BOOLEAN] }

Introduction == << "Introduction" >>
Background   == << "Background" >>
Methods      == << "Methods" >>
TextA        == << "Text", " ", "A" >>
TextB        == << "Text", " ", "B" >>
TextC        == << "Text", " ", "C" >>
IntroBody    == << "Intro", ".", " ", "Body" >>
NumIntroBody == << "1", ".", " ", "Intro", ".", " ", "Body" >>
NumIntro     == << "1", ".", " ", "Intro" >>
TableOne     == << "Table", " ", "1" >>

MaxBlocks == 3          \* children of a document of Docs
MaxHeads == 4           \* headings of a document of HeadingDocs
MaxReuseBlocks == 2     \* children of a document parsed on a used parser
MaxConcBlocks == 2      \* children of a document parsed concurrently

Blocks ==
  { Blk("head", << "1" >>, Introduction),
    Blk("head", << "1", ".", "1" >>, Background),
    Blk("head", << "3", ".", "2" >>, Methods),
    Blk("head", <<>>, Introduction),
    Blk("head", <<>>, TableOne),
    Blk("p", <<>>, TextA),
    Blk("p", <<>>, IntroBody),
    Blk("p", <<>>, NumIntroBody),
    Blk("p", <<>>, NumIntro),
    Blk("other", <<>>, TextB) }

\* heading blocks that carry an address, for streams of headings only
Addresses ==
  { << "1" >>, << "1", ".", "1" >>, << "1", ".", "1", ".", "1" >>,
    << "1", ".", "2" >>, << "2" >>, << "2", ".", "1" >>, << "3" >>,
    << "5", ".", "3", ".", "2" >> }

HeadingDocs ==
  { Doc(<< s >>) :
      s \in SeqsUpTo({ Blk("head", a, Methods) : a \in Addresses }, MaxHeads) }

\* the stream of section 8 of the specification, in one division and with
\* one division for each heading
ExampleBlocks ==
  << Blk("head", << "1" >>, Introduction), Blk("p", <<>>, TextA),
     Blk("head", << "1", ".", "1" >>, Background), Blk("p", <<>>, TextB),
     Blk("head", << "2" >>, Methods), Blk("p", <<>>, TextC) >>

ExampleDoc == Doc(<< ExampleBlocks >>)

ExampleDocDivs ==
  Doc(<< SubSeq(ExampleBlocks, 1, 2), SubSeq(ExampleBlocks, 3, 4),
         SubSeq(ExampleBlocks, 5, 6) >>)

\* the inconsistent address sequence [1], [1,1], [5,3,2], [1,2]
InconsistentDoc ==
  Doc(<< << Blk("head", << "1" >>, Introduction),
            Blk("head", << "1", ".", "1" >>, Background),
            Blk("head", << "5", ".", "3", ".", "2" >>, Methods),
            Blk("head", << "1", ".", "2" >>, Methods) >> >>)

\* a body whose one division holds one empty paragraph
EmptyParagraphDoc == Doc(<< << Blk("p", <<>>, <<>>) >> >>)

\* "Introduction. This paper presents a new method."
NewMethod ==
  << "This", " ", "paper", " ", "presents", " ", "a", " ", "new", " ",
     "method", "." >>
IntroNewMethod == << "Introduction", ".", " " >> \o NewMethod

\* streams with headings that hold no title
UntitledBlocks ==
  { Blk("head", << "1" >>, <<>>),
    Blk("head", <<>>, <<>>),
    Blk("p", <<>>, TextA),
    Blk("p", <<>>, IntroNewMethod),
    Blk("other", <<>>, TextB) }

UntitledDocs == DocsOf(UntitledBlocks, MaxBlocks)

\* documents for the runs to the end of a call: short streams of headings
\* in any order of addresses, single blocks, and the documents above
MaxLiveHeads == 2

LiveDocs ==
  { Doc(<< s >>) :
      s \in SeqsUpTo({ Blk("head", a, Methods) : a \in Addresses },
                     MaxLiveHeads) }
    \cup { Doc(<< << b >> >>) : b \in Blocks }
    \cup { NoBodyDoc, Doc(<<>>), EmptyParagraphDoc, ExampleDoc,
           ExampleDocDivs, InconsistentDoc }

Docs ==
  DocsOf(Blocks, MaxBlocks) \cup HeadingDocs \cup UntitledDocs
    \cup { NoBodyDoc, Doc(<<>>), Doc(<< <<>> >>), EmptyParagraphDoc,
           ExampleDoc, ExampleDocDivs, InconsistentDoc }

ReuseBlocks ==
  { Blk("head", << "1" >>, Introduction),
    Blk("head", << "1", ".", "1" >>, Background),
    Blk("head", <<>>, Introduction),
    Blk("p", <<>>, TextA),
    Blk("p", <<>>, IntroBody),
    Blk("p", <<>>, NumIntroBody) }

ReuseDocs ==
  { Doc(<< s >>) : s \in SeqsUpTo(ReuseBlocks, MaxReuseBlocks) }

ConcBlocks ==
  { Blk("head", << "1" >>, Introduction),
    Blk("head", <<>>, Introduction),
    Blk("p", <<>>, TextA) }

ConcDocs == DocsOf(ConcBlocks, MaxConcBlocks)

\* Hand-built trees, for flattening and reparsing.  A tree is the sequence
\* of its top-level Sections; a Section is << name, paragraph texts,
\* child Sections >>, numbered from 1 among its siblings.
MaxTreeChildren == 2

NumTwoBody == << "2", ".", " ", "Intro", ".", " ", "Body" >>

TreeNames == { <<>>, Methods }

TreeParagraphs == { <<>>, << IntroBody >> }

LeafSections ==
  { << name, paragraphs, <<>> >> :
      name \in TreeNames, paragraphs \in TreeParagraphs }

InnerSections ==
  { << name, paragraphs, children >> :
      name \in TreeNames, paragraphs \in TreeParagraphs,
      children \in SeqsUpTo(LeafSections, MaxTreeChildren) }

\* a Section with two paragraphs above a chain three levels deep, and a
\* Section whose paragraph begins like a numbered heading
DeepTree ==
  << << Introduction, << TextA, IntroBody >>,
        << << Background, << TextB >>,
              << << Methods, << TextC >>, <<>> >> >> >> >> >>,
     << Methods, <<>>, <<>> >> >>

NumberedParagraphTree == << << Methods, << NumTwoBody >>, <<>> >> >>

Trees ==
  (SeqsUpTo(InnerSections, MaxTreeChildren) \ { <<>> })
    \cup { DeepTree, NumberedParagraphTree }

\* "2.1" for <<2, 1>>
DigitOf(n) == CHOOSE c \in Digits : DigitVal(c) = n

RECURSIVE AddressText(_)
AddressText(numbers) ==
  IF Len(numbers) = 1 THEN << DigitOf(numbers[1]) >>
  ELSE << DigitOf(numbers[1]), "." >> \o AddressText(Tail(numbers))

RECURSIVE ParagraphBlocks(_)
ParagraphBlocks(texts) ==
  IF texts = <<>> THEN <<>>
  ELSE << Blk("p", <<>>, Head(texts)) >> \o ParagraphBlocks(Tail(texts))

\* the stream of the Sections i.. of sections, the children of the Section
\* with address prefix: for each Section its heading carrying its address,
\* its paragraphs, then its children
RECURSIVE FlattenSections(_, _, _)
FlattenSections(sections, prefix, i) ==
  IF i > Len(sections) THEN <<>>
  ELSE << Blk("head", AddressText(prefix \o << i >>), sections[i][1]) >>
         \o ParagraphBlocks(sections[i][2])
         \o FlattenSections(sections[i][3], prefix \o << i >>, 1)
         \o FlattenSections(sections, prefix, i + 1)

\* a new division at every heading
RECURSIVE DivideAtHeads(_)
DivideAtHeads(blocks) ==
  IF blocks = <<>> THEN <<>>
  ELSE LET rest == DivideAtHeads(Tail(blocks)) IN
       IF rest = <<>> THEN << << Head(blocks) >> >>
       ELSE IF Head(Head(rest)).kind = "head"
       THEN << << Head(blocks) >> >> \o rest
       ELSE << << Head(blocks) >> \o Head(rest) >> \o Tail(rest)

\* the flattened tree as a document, which remembers the tree it was made of
TreeDoc(tree, divs) == [body |-> TRUE, divs |-> divs, tree |-> tree]

TreeDocs ==
  { TreeDoc(tree, << FlattenSections(tree, <<>>, 1) >>) : tree \in Trees }
    \cup { TreeDoc(tree, DivideAtHeads(FlattenSections(tree, <<>>, 1))) :
             tree \in Trees }

\* blocks for the classifier: headings with and without an address, with
\* and without a leading keyword, and paragraphs whose text begins with an
\* address that descends from, follows, climbs from or contradicts the stack
TableOfResults == << "Table", " ", "of", " ", "results" >>
Definitions    == << "Definitions" >>
NumFiveBody    == << "5", ".", " ", "Intro", ".", " ", "Body" >>
NumTableBody   == << "2", ".", " ", "Table", " ", "1", ".", " ", "Body" >>
TabletBody     == << "Tablet", ".", " ", "Body" >>

MaxClassifyBlocks == 3  \* children of a document of ClassifyDocs

ClassifyBlocks ==
  { Blk("head", << "1" >>, Introduction),
    Blk("head", << "1", ".", "1" >>, Background),
    Blk("head", << "3" >>, TableOfResults),
    Blk("head", <<>>, TableOne),
    Blk("head", <<>>, Background),
    Blk("head", <<>>, Definitions),
    Blk("p", <<>>, TextA),
    Blk("p", <<>>, IntroBody),
    Blk("p", <<>>, NumIntroBody),
    Blk("p", <<>>, NumIntro),
    Blk("p", <<>>, NumTwoBody),
    Blk("p", <<>>, NumFiveBody),
    Blk("p", <<>>, NumTableBody),
    Blk("p", <<>>, TabletBody) }

ClassifyDocs == DocsOf(ClassifyBlocks, MaxClassifyBlocks)

\* heading blocks whose address is in the n attribute, in the text, or in
\* the text beside an n attribute that holds no address
RelatedWork    == << "Related", " ", "work" >>
NumRelatedWork == << "2", ".", "1", " " >> \o RelatedWork

MaxAttrBlocks == 3  \* children of a document of AttrDocs

AttrBlocks ==
  { Blk("head", << "1" >>, Introduction),
    Blk("head", << "2" >>, Methods),
    Blk("head", << "2", ".", "1" >>, RelatedWork),
    Blk("head", << "2", ".", "1", "." >>, RelatedWork),
    Blk("head", <<>>, NumRelatedWork),
    Blk("head", << "A" >>, NumRelatedWork),
    Blk("head", << "A" >>, Introduction),
    Blk("p", <<>>, TextA) }

AttrDocs == DocsOf(AttrBlocks, MaxAttrBlocks)

\* paragraphs that follow a heading without title: with a period inside a
\* number, with a question mark, with a sentence, and with neither
DoseText   == << "Dose", " ", "3", ".", "5", " ", "mg" >>
ReallyText == << "Really", "?", " ", "Yes" >>

MaxFillBlocks == 3  \* children of a document of FillDocs

FillBlocks ==
  { Blk("head", << "1" >>, <<>>),
    Blk("head", << "1" >>, Introduction),
    Blk("p", <<>>, DoseText),
    Blk("p", <<>>, ReallyText),
    Blk("p", <<>>, IntroBody),
    Blk("p", <<>>, TextA) }

FillDocs == DocsOf(FillBlocks, MaxFillBlocks)

\* streams of headings for the hierarchy tracker: first headings that are
\* not number 1, siblings, jumps over two levels, and addresses that share
\* a frame below the top of the stack
MaxTrackHeads == 4  \* headings of a document of TrackDocs

TrackAddresses ==
  { << "1" >>, << "1", ".", "1" >>, << "1", ".", "2" >>, << "2" >>,
    << "2", ".", "1" >>, << "2", ".", "3" >>, << "2", ".", "1", ".", "1" >>,
    << "3", ".", "2" >>, << "1", ".", "1", ".", "1" >> }

TrackDocs ==
  { Doc(<< s >>) :
      s \in SeqsUpTo({ Blk("head", a, Methods) : a \in TrackAddresses },
                     MaxTrackHeads) \ { <<>> } }

\* elements for text extraction: a <p> with at most MaxElemChildren children,
\* each a reference or a <hi> that may hold one <hi> of its own
Cite == << "[", "1", "2", "]" >>
Continues == << " ", "continues" >>
See == << " ", "See", " " >>

MaxElemChildren == 2

GrandChildren ==
  { Element("hi", Some(<< "x" >>), tail, <<>>) :
      tail \in { Absent, Some(<< "y" >>) } }

ChildElements ==
  { Element(tag, text, tail, kids) :
      tag \in { "ref", "hi" },
      text \in { Absent, Some(Cite) },
      tail \in { Absent, Some(<<>>), Some(Continues) },
      kids \in { <<>> } \cup { << g >> : g \in GrandChildren } }

Elements ==
  { Element("p", text, tail, kids) :
      text \in { Absent, Some(See) },
      tail \in { Absent, Some(<< "z" >>) },
      kids \in SeqsUpTo(ChildElements, MaxElemChildren) }

\* <p>See <ref>[12]</ref> continues</p>
CitingElement ==
  Element("p", Some(See), Absent,
          << Element("ref", Some(Cite), Some(Continues), <<>>) >>)

(***************************************************************************)
(* The parser instance and the calls of parse                              *)
(*                                                                         *)
(* heap, hier  the HTMLSection objects and current_section_hierarchy of    *)
(*             the one parser instance (src/search.py: parser)             *)
(* calls[t]    the documents thread t has still to parse                   *)
(* th[t]       the position and the locals of the parse call of thread t   *)
(* results[t]  what the calls of thread t have returned, in order          *)
(* element     the element given to _extract_text_from_element             *)
(* extracted   what that call has returned, absent before it returns       *)
(***************************************************************************)
VARIABLES heap, hier, calls, th, results, element, extracted

(***************************************************************************)
(* The services around the parser                                          *)
(*                                                                         *)
(* session   SessionManager (src/session_manager.py):                      *)
(*             global  _global_session: 0 for None, else the session       *)
(*             closed  for every session made, whether it is closed        *)
(*             log     the calls made to SessionManager, in order          *)
(*             got     what the last get did: raised, or returned value    *)
(* request   one call of async_request_template and its attempts           *)
(* proc      one call of process_paper and its URL tasks (src/search.py):  *)
(*             pc         idle, loop (awaiting the next completed task),   *)
(*                        gather (awaiting the tasks in finally), returned *)
(*             tasks      the state of every URL task: pending, cancelling *)
(*                        (cancel() called on it), or how it ended: result *)
(*                        (a truthy result), nothing (None), error,        *)
(*                        cancelled                                        *)
(*             completed  the tasks that have ended, in the order they     *)
(*                        ended: what as_completed hands out               *)
(*             taken      how many of them the loop has awaited            *)
(*             pending    the tasks not done when the first success was    *)
(*                        found                                            *)
(*             ret        the value returned: 0 for None, else the task    *)
(*                        whose result it is                               *)
(***************************************************************************)
VARIABLES session, request, proc

vars == << heap, hier, calls, th, results, element, extracted,
           session, request, proc >>

parser_vars == << heap, hier, calls, th, results, element, extracted >>

\* no session made and no call made to SessionManager
NoSession ==
  [global |-> 0, closed |-> <<>>, log |-> <<>>,
   got |-> [raised |-> FALSE, value |-> 0]]

\* no call of async_request_template begun
NoRequest == [pc |-> "idle", errors |-> <<>>]

\* no call of process_paper begun
NoProcess ==
  [pc |-> "idle", tasks |-> <<>>, completed |-> <<>>, taken |-> 0,
   pending |-> {}, ret |-> 0]

InitServices ==
  /\ session = NoSession
  /\ request = NoRequest
  /\ proc = NoProcess

Threads == {1, 2}

Idle ==
  [pc |-> "idle", doc |-> NoBodyDoc, d |-> 0, b |-> 0, sections |-> <<>>,
   cur |-> 0, hsi |-> TRUE, unrecov |-> FALSE, start |-> <<>>]

\* the parser state seen by the call of thread t
PState(t) ==
  [heap |-> heap, hier |-> hier, sections |-> th[t].sections,
   cur |-> th[t].cur, hsi |-> th[t].hsi, exc |-> FALSE,
   unrecov |-> th[t].unrecov]

\* the outcome of a call: start is the hierarchy the call found, structure
\* the paper.get_skeleton() that the caller makes of the returned Paper
Result(t, raised, out) ==
  [doc |-> th[t].doc, raised |-> raised, paper |-> out.paper,
   fallbacks |-> out.fallbacks, unrecov |-> th[t].unrecov,
   start |-> th[t].start,
   structure |-> IF raised THEN <<>> ELSE Paper_get_skeleton(out.paper)]

NoPaper == [paper |-> Paper, fallbacks |-> 0]

\* parse(xml_content) up to "body is None: return"
Parse(t) ==
  /\ th[t].pc = "idle"
  /\ calls[t] # <<>>
  /\ calls' = [calls EXCEPT ![t] = Tail(@)]
  /\ LET doc == Head(calls[t])
         me  == [Idle EXCEPT !.doc = doc, !.start = hier]
     IN IF doc.body
        THEN /\ th' = [th EXCEPT ![t] = [me EXCEPT !.pc = "div", !.d = 1]]
             /\ UNCHANGED results
        ELSE /\ th' = [th EXCEPT ![t] = Idle]
             /\ results' = [results EXCEPT ![t] =
                               Append(@, [doc |-> doc, raised |-> FALSE,
                                          paper |-> Paper, fallbacks |-> 0,
                                          unrecov |-> FALSE, start |-> hier,
                                          structure |->
                                            Paper_get_skeleton(Paper)])]
  /\ UNCHANGED << heap, hier, element, extracted, session, request, proc >>

\* the start of _parse_div_with_complex_paragraphs for the next division
ParseDiv(t) ==
  /\ th[t].pc = "div"
  /\ th[t].d <= Len(th[t].doc.divs)
  /\ LET P == EnterDiv(PState(t)) IN
     th' = [th EXCEPT ![t].pc = "child", ![t].b = 1,
                      ![t].cur = P.cur, ![t].hsi = P.hsi]
  /\ UNCHANGED << heap, hier, calls, results, element, extracted,
                  session, request, proc >>

\* one turn of "for child in div_element"; an exception leaves parse
Child(t) ==
  /\ th[t].pc = "child"
  /\ th[t].b <= Len(th[t].doc.divs[th[t].d])
  /\ LET Done(P) ==
           /\ heap' = P.heap
           /\ hier' = P.hier
           /\ IF P.exc
              THEN /\ th' = [th EXCEPT ![t] = Idle]
                   /\ results' = [results EXCEPT ![t] =
                                     Append(@, Result(t, TRUE, NoPaper))]
              ELSE /\ th' = [th EXCEPT ![t].b = @ + 1,
                                       ![t].sections = P.sections,
                                       ![t].cur = P.cur, ![t].hsi = P.hsi,
                                       ![t].unrecov = P.unrecov]
                   /\ UNCHANGED results
     IN \E P \in { ParseChild(PState(t), th[t].doc.divs[th[t].d][th[t].b]) } :
          Done(P)
  /\ UNCHANGED << calls, element, extracted, session, request, proc >>

\* a division loop that never leaves the division it has finished
EndDivNever(t) ==
  /\ th[t].pc = "child"
  /\ th[t].b > Len(th[t].doc.divs[th[t].d])
  /\ UNCHANGED vars

\* return sections; pseudo_sections.extend(sections)
EndDiv(t) ==
  /\ th[t].pc = "child"
  /\ th[t].b > Len(th[t].doc.divs[th[t].d])
  /\ th' = [th EXCEPT ![t].pc = "div", ![t].d = @ + 1]
  /\ UNCHANGED << heap, hier, calls, results, element, extracted,
                  session, request, proc >>

\* the tree builder without its try: the exception leaves parse
BuildNoTry(t) ==
  /\ th[t].pc = "div"
  /\ th[t].d > Len(th[t].doc.divs)
  /\ \E B \in { BuildTree(Paper, Deref(heap, th[t].sections)) } :
       results' = [results EXCEPT ![t] =
                     Append(@, IF B.exc THEN Result(t, TRUE, NoPaper)
                               ELSE Result(t, FALSE, [paper |-> B.paper,
                                                      fallbacks |-> 0]))]
  /\ th' = [th EXCEPT ![t] = Idle]
  /\ UNCHANGED << heap, hier, calls, element, extracted,
                  session, request, proc >>

\* the try block, the fallback and the return of parse
Build(t) ==
  /\ th[t].pc = "div"
  /\ th[t].d > Len(th[t].doc.divs)
  /\ \E out \in { ExtractBodySections(Paper, Deref(heap, th[t].sections),
                                        th[t].doc.divs) } :
       results' = [results EXCEPT ![t] = Append(@, Result(t, FALSE, out))]
  /\ th' = [th EXCEPT ![t] = Idle]
  /\ UNCHANGED << heap, hier, calls, element, extracted,
                  session, request, proc >>

Next ==
  \E t \in Threads :
    Parse(t) \/ ParseDiv(t) \/ Child(t) \/ EndDiv(t) \/ Build(t)

\* XMLPaperParser() and no call begun
InitParser ==
  /\ heap = <<>>
  /\ hier = <<>>
  /\ th = [t \in Threads |-> Idle]
  /\ results = [t \in Threads |-> <<>>]
  /\ element = Element("p", Absent, Absent, <<>>)
  /\ extracted = Absent
  /\ InitServices

\* one call of parse on a fresh parser
Init ==
  /\ InitParser
  /\ \E d \in Docs : calls = [t \in Threads |-> IF t = 1 THEN << d >> ELSE <<>>]

Spec == Init /\ [][Next]_vars

\* one call of parse on a fresh parser that is run to its end: parse is
\* synchronous code on a thread of its own and is never suspended for good
InitLive ==
  /\ InitParser
  /\ \E d \in LiveDocs :
       calls = [t \in Threads |-> IF t = 1 THEN << d >> ELSE <<>>]

SpecLive == InitLive /\ [][Next]_vars /\ WF_vars(Next)

\* two calls of parse, one after the other, on the same parser
InitReuse ==
  /\ InitParser
  /\ \E d1 \in ReuseDocs, d2 \in ReuseDocs :
       calls = [t \in Threads |-> IF t = 1 THEN << d1, d2 >> ELSE <<>>]

SpecReuse == InitReuse /\ [][Next]_vars

\* two calls of parse on the same parser, each on a thread of its own
\* (asyncio.to_thread(parser.parse, xml_text) under PARSE_SEMAPHORE)
InitConc ==
  /\ InitParser
  /\ \E d1 \in ConcDocs, d2 \in ConcDocs :
       calls = [t \in Threads |-> IF t = 1 THEN << d1 >> ELSE << d2 >>]

SpecConc == InitConc /\ [][Next]_vars

\* one call of parse on a fresh parser, the document a flattened tree
InitRoundTrip ==
  /\ InitParser
  /\ \E d \in TreeDocs :
       calls = [t \in Threads |-> IF t = 1 THEN << d >> ELSE <<>>]

SpecRoundTrip == InitRoundTrip /\ [][Next]_vars

\* one call of parse on a fresh parser, on the streams of the classifier
InitClassify ==
  /\ InitParser
  /\ \E d \in ClassifyDocs :
       calls = [t \in Threads |-> IF t = 1 THEN << d >> ELSE <<>>]

SpecClassify == InitClassify /\ [][Next]_vars

\* one call of parse on a fresh parser, on the headings with an n attribute
InitAttr ==
  /\ InitParser
  /\ \E d \in AttrDocs :
       calls = [t \in Threads |-> IF t = 1 THEN << d >> ELSE <<>>]

SpecAttr == InitAttr /\ [][Next]_vars

\* one call of parse on a fresh parser, on paragraphs under untitled headings
InitFill ==
  /\ InitParser
  /\ \E d \in FillDocs :
       calls = [t \in Threads |-> IF t = 1 THEN << d >> ELSE <<>>]

SpecFill == InitFill /\ [][Next]_vars

\* one call of parse on a fresh parser, on the streams of the tracker
InitTrack ==
  /\ InitParser
  /\ \E d \in TrackDocs :
       calls = [t \in Threads |-> IF t = 1 THEN << d >> ELSE <<>>]

SpecTrack == InitTrack /\ [][Next]_vars

\* text = self._extract_text_from_element(child)
ExtractText ==
  /\ ~ extracted.present
  /\ extracted' = Some(extract_text_from_element(element))
  /\ UNCHANGED << heap, hier, calls, th, results, element,
                  session, request, proc >>

\* one call of _extract_text_from_element
InitExtract ==
  /\ heap = <<>>
  /\ hier = <<>>
  /\ th = [t \in Threads |-> Idle]
  /\ results = [t \in Threads |-> <<>>]
  /\ calls = [t \in Threads |-> <<>>]
  /\ element \in Elements
  /\ extracted = Absent
  /\ InitServices

SpecExtract == InitExtract /\ [][ExtractText]_vars

(***************************************************************************)
(* parse run alone on a fresh parser, as one function of the document      *)
(***************************************************************************)
RECURSIVE ParseChildren(_, _)
ParseChildren(P, children) ==
  IF P.exc \/ children = <<>> THEN P
  ELSE ParseChildren(ParseChild(P, Head(children)), Tail(children))

RECURSIVE ParseDivs(_, _)
ParseDivs(P, divs) ==
  IF P.exc \/ divs = <<>> THEN P
  ELSE ParseDivs(ParseChildren(EnterDiv(P), Head(divs)), Tail(divs))

FreshParser ==
  [heap |-> <<>>, hier |-> <<>>, sections |-> <<>>, cur |-> 0, hsi |-> TRUE,
   exc |-> FALSE, unrecov |-> FALSE]

ParseAlone(doc) ==
  LET P   == ParseDivs(FreshParser, doc.divs)
      out == ExtractBodySections(Paper, Deref(P.heap, P.sections), doc.divs)
  IN IF ~ doc.body THEN [raised |-> FALSE, paper |-> Paper]
     ELSE IF P.exc THEN [raised |-> TRUE, paper |-> Paper]
     ELSE [raised |-> FALSE, paper |-> out.paper]

\* the structure of a Paper: names, paragraph texts and nesting
RECURSIVE TextsOf(_)
TextsOf(paragraphs) ==
  IF paragraphs = <<>> THEN <<>>
  ELSE << Head(paragraphs).text >> \o TextsOf(Tail(paragraphs))

RECURSIVE ShapeOf(_, _)
RECURSIVE ShapesOf(_, _)
ShapeOf(paper, id) ==
  << paper.nodes[id].name, TextsOf(paper.nodes[id].paragraphs),
     ShapesOf(paper, paper.nodes[id].children) >>
ShapesOf(paper, ids) ==
  IF ids = <<>> THEN <<>>
  ELSE << ShapeOf(paper, Head(ids)) >> \o ShapesOf(paper, Tail(ids))

Shape(paper) == << TextsOf(paper.paragraphs), ShapesOf(paper, paper.children) >>

\* what a caller of parse can observe of a call
Outcome(r) == IF r.raised THEN << "raised" >> ELSE << "paper", Shape(r.paper) >>

(***************************************************************************)
(* Properties                                                              *)
(***************************************************************************)
\* every outcome of a call of parse so far
AllResults ==
  UNION { { results[t][i] : i \in 1..Len(results[t]) } : t \in Threads }

\* the number of father hops from Section id to the Paper
RECURSIVE Depth(_, _)
Depth(paper, id) == IF id = 0 THEN 0 ELSE 1 + Depth(paper, paper.nodes[id].father)

Last(s) == s[Len(s)]

\* C1: parse returns a Document and raises nothing, for every body block
\* stream parsed on a fresh parser.
C1_ParseNeverRaises == \A r \in AllResults : ~ r.raised

\* C2: two calls of parse with the same input on the same parser instance
\* yield structurally equal Documents.
C2_SameInputSameDocument ==
  \A i \in 1..Len(results[1]), j \in 1..Len(results[1]) :
    results[1][i].doc = results[1][j].doc
      => Outcome(results[1][i]) = Outcome(results[1][j])

\* C3: at the start of every call of parse the stack
\* current_section_hierarchy is empty.
C3_StackEmptyAtStart ==
  /\ \A t \in Threads : th[t].pc # "idle" => th[t].start = <<>>
  /\ \A r \in AllResults : r.start = <<>>

\* C4: a parse that runs while another parse runs on the same parser returns
\* the Document it returns when run alone.  Only calls that found the stack
\* empty are looked at, so that a difference is made during the call.
C4_ConcurrentParsesIsolated ==
  \A r \in AllResults :
    r.start = <<>> => Outcome(r) = Outcome(ParseAlone(r.doc))

\* C5: the example stream yields "Introduction" (["Text A"], one child
\* "Background" (["Text B"])) and "Methods" (["Text C"]) at the top level.
ExampleShape ==
  << <<>>,
     << << Introduction, << TextA >>,
           << << Background, << TextB >>, <<>> >> >> >>,
        << Methods, << TextC >>, <<>> >> >> >>

C5_Example ==
  \A r \in AllResults :
    r.doc \in { ExampleDoc, ExampleDocDivs }
      => Outcome(r) = << "paper", ExampleShape >>

C5_Witness ==
  /\ \E r \in AllResults : r.doc = ExampleDoc /\ Len(r.paper.nodes) = 3
  /\ calls[1] = <<>>

\* the address a heading block carries, as the classifier reads it
AddressOf(blk) ==
  ParseSectionTitleFromP(FreshParser, blk.text, "head", blk.n).numbers

RECURSIVE Flatten(_)
Flatten(divs) == IF divs = <<>> THEN <<>> ELSE Head(divs) \o Flatten(Tail(divs))

\* b is the first child of a, the next sibling of a, or the next sibling of
\* an ancestor of a
Follows(a, b) ==
  \/ b = a \o << 1 >>
  \/ /\ Len(b) >= 1
     /\ Len(b) <= Len(a)
     /\ SubSeq(b, 1, Len(b) - 1) = SubSeq(a, 1, Len(b) - 1)
     /\ Last(b) = a[Len(b)] + 1

\* a stream of heading blocks with well-formed sequential addresses
WellFormedHeadings(doc) ==
  LET s == Flatten(doc.divs) IN
  /\ doc.body
  /\ s # <<>>
  /\ \A i \in 1..Len(s) : s[i].kind = "head" /\ AddressOf(s[i]) # <<>>
  /\ AddressOf(s[1]) = << 1 >>
  /\ \A i \in 1..(Len(s) - 1) : Follows(AddressOf(s[i]), AddressOf(s[i + 1]))

\* C6: for a stream of heading blocks with well-formed sequential addresses,
\* every Section sits at the depth that is the length of its address, and the
\* children of every Section and of the Document are in increasing order of
\* their last address component.  Section i is built from heading i.
Increasing(s, children) ==
  \A i \in 1..(Len(children) - 1) :
    Last(AddressOf(s[children[i]])) < Last(AddressOf(s[children[i + 1]]))

C6_DepthIsAddressLength ==
  \A r \in AllResults :
    WellFormedHeadings(r.doc) =>
      LET s == Flatten(r.doc.divs) IN
      /\ ~ r.raised
      /\ Len(r.paper.nodes) = Len(s)
      /\ \A id \in 1..Len(s) :
           /\ Depth(r.paper, id) = Len(AddressOf(s[id]))
           /\ Increasing(s, r.paper.nodes[id].children)
      /\ Increasing(s, r.paper.children)

\* C7: the heading addresses [1], [1,1], [5,3,2], [1,2] give a flat Document
\* made by the fallback: nothing is raised and no Section is nested in it.
C7_InconsistentIsFlat ==
  \A r \in AllResults :
    r.doc = InconsistentDoc =>
      ~ r.raised /\ r.fallbacks = 1 /\ r.paper.nodes = <<>>

\* C8: when a heading address is inconsistent with the stack and no frame's
\* address is a prefix of it, the document is made by the fallback and no
\* Section is made for the heading.
C8_UnrecoverableFallsBack ==
  \A r \in AllResults :
    (r.unrecov /\ ~ r.raised) => r.fallbacks = 1 /\ r.paper.nodes = <<>>

\* C9: the fallback runs at most once in a parse, and only after a heading
\* address was met that no frame of the stack is a prefix of.
C9_FallbackOnlyIfUnrecoverable ==
  \A r \in AllResults :
    r.fallbacks <= 1 /\ (r.fallbacks = 1 => r.unrecov)

\* C10: when the fallback has run, the returned Document has no child
\* Section and every paragraph of it is owned by the Document.
C10_FallbackIsFlat ==
  \A r \in AllResults :
    r.fallbacks > 0 =>
      /\ r.paper.children = <<>>
      /\ r.paper.nodes = <<>>
      /\ \A i \in 1..Len(r.paper.paragraphs) : r.paper.paragraphs[i].father = 0

\* the text a heading block brings into the fallback: its address, a space
\* and its text
HeadingText(blk) ==
  IF blk.n # <<>> THEN blk.n \o << " " >> \o blk.text ELSE blk.text

\* the heading texts of the blocks a..b of a division, one after the other
RECURSIVE HeadingTexts(_, _, _)
HeadingTexts(children, a, b) ==
  IF a > b THEN <<>>
  ELSE HeadingText(children[a]) \o HeadingTexts(children, a + 1, b)

\* the heading blocks met before block j since the last non-heading block
PendingBefore(children, j) ==
  LET stops == { k \in 1..(j - 1) : children[k].kind # "head" }
      from  == IF stops = {} THEN 1
               ELSE 1 + CHOOSE k \in stops : \A m \in stops : m <= k
  IN HeadingTexts(children, from, j - 1)

\* the paragraphs a division gives: one for each non-heading block, then one
\* for the heading text left at its end
RECURSIVE CarriedFrom(_, _)
CarriedFrom(children, j) ==
  IF j > Len(children)
  THEN IF PendingBefore(children, j) # <<>>
       THEN << PendingBefore(children, j) >> ELSE <<>>
  ELSE IF children[j].kind = "head" THEN CarriedFrom(children, j + 1)
  ELSE << PendingBefore(children, j) \o << " " >> \o children[j].text >>
         \o CarriedFrom(children, j + 1)

RECURSIVE CarriedAll(_)
CarriedAll(divs) ==
  IF divs = <<>> THEN <<>>
  ELSE CarriedFrom(Head(divs), 1) \o CarriedAll(Tail(divs))

\* C11: in the fallback, the heading texts met since the last paragraph are
\* the prefix of the next non-heading block's paragraph, heading text left at
\* the end of a division is one paragraph of its own, and nothing is carried
\* into the next division: the paragraphs of the Document are, division by
\* division and in stream order, exactly these.
C11_FallbackCarriesHeadings ==
  \A r \in AllResults :
    r.fallbacks = 1 =>
      TextsOf(r.paper.paragraphs) = CarriedAll(r.doc.divs)

\* a fallback over two divisions, the first one ending with a heading
C11_Witness ==
  \E r \in AllResults :
    /\ r.fallbacks = 1
    /\ r.doc = Doc(<< << Blk("head", <<>>, Introduction) >>,
                      << Blk("p", <<>>, TextA) >> >>)
    /\ TextsOf(r.paper.paragraphs) = << Introduction, << " " >> \o TextA >>

\* t holds sub as a run of consecutive characters
Contains(t, sub) ==
  \E i \in 0..(Len(t) - Len(sub)) : SubSeq(t, i + 1, i + Len(sub)) = sub

\* the elements below e, at any depth
RECURSIVE SubNodes(_)
SubNodes(e) ==
  { e.children[i] : i \in 1..Len(e.children) }
    \cup UNION { SubNodes(e.children[i]) : i \in 1..Len(e.children) }

\* C12: the text of a reference sub-node is left out of the extracted text
\* and its tail is kept: when "[12]" is the text of reference sub-nodes only,
\* the extracted text does not contain "[12]", and the text extracted from
\* <p>See <ref>[12]</ref> continues</p> contains " continues".
C12_ReferenceTextSkipped ==
  extracted.present =>
    /\ (\A n \in SubNodes(element) : n.text = Some(Cite) => n.tag = "ref")
          => ~ Contains(extracted.s, Cite)
    /\ element = CitingElement => Contains(extracted.s, Continues)

\* itertext(): the text of an element and, for each child in order, the
\* child's text in document order and the child's tail
RECURSIVE DocumentOrderText(_)
DocumentOrderText(e) ==
  LET RECURSIVE Below(_)
      Below(cs) ==
        IF cs = <<>> THEN <<>>
        ELSE DocumentOrderText(Head(cs))
               \o (IF Head(cs).tail.present THEN Head(cs).tail.s ELSE <<>>)
               \o Below(Tail(cs))
  IN (IF e.text.present THEN e.text.s ELSE <<>>) \o Below(e.children)

\* C13: for an element without a reference sub-node the extracted text is
\* the trimmed concatenation, in document order, of its text and of the
\* texts and tails of all its descendants, its own tail left out; an absent
\* or empty text or tail adds nothing.
C13_ExtractionIsFullText ==
  (extracted.present /\ \A n \in SubNodes(element) : n.tag # "ref")
    => extracted.s = Strip(DocumentOrderText(element))

\* an element with a tail of its own, two levels of children, and an absent
\* and an empty tail among them
C13_Witness ==
  /\ extracted.present
  /\ element.tail.present
  /\ \A n \in SubNodes(element) : n.tag # "ref"
  /\ \E n \in SubNodes(element) : n.children # <<>> /\ n.tail = Some(<<>>)
  /\ \E n \in SubNodes(element) : ~ n.tail.present
  /\ Len(element.children) = 2

\* the call of thread t handles the paragraph block "Introduction. This
\* paper presents a new method." while the Section open in its division has
\* no title
FillsUntitled(t) ==
  /\ th[t].pc = "child"
  /\ th[t].b <= Len(th[t].doc.divs[th[t].d])
  /\ th[t].doc.divs[th[t].d][th[t].b] = Blk("p", <<>>, IntroNewMethod)
  /\ th[t].cur # 0
  /\ heap[th[t].cur].title = <<>>
  /\ th'[t].pc = "child"
  /\ th'[t].b = th[t].b + 1

\* the Section open in the division is titled "Introduction" and holds the
\* one paragraph "This paper presents a new method."
FilledIn(t) ==
  /\ th'[t].cur = th[t].cur
  /\ heap'[th[t].cur].title = Introduction
  /\ heap'[th[t].cur].paragraphs = << NewMethod >>

C15_RoundTrip ==
  \A r \in AllResults : Outcome(r) = << "paper", << <<>>, r.doc.tree >> >>

\* every Section below has a name, and no paragraph is empty or begins with
\* a digit
RECURSIVE NamedAndPlain(_)
NamedAndPlain(sections) ==
  \A i \in 1..Len(sections) :
    /\ sections[i][1] # <<>>
    /\ \A j \in 1..Len(sections[i][2]) :
         /\ sections[i][2][j] # <<>>
         /\ Head(sections[i][2][j]) \notin Digits
    /\ NamedAndPlain(sections[i][3])

\* C15 amended: the round trip holds for the trees whose Sections all have a
\* non-empty name and whose paragraphs are non-empty and do not begin with
\* an address.
C15_NamedRoundTrip ==
  \A r \in AllResults :
    NamedAndPlain(r.doc.tree)
      => Outcome(r) = << "paper", << <<>>, r.doc.tree >> >>

\* a tree of four Sections on three levels, one division for each heading
C15_Witness ==
  \E r \in AllResults :
    /\ r.doc.tree = DeepTree
    /\ Len(r.doc.divs) = 4
    /\ Len(r.paper.nodes) = 4
    /\ Shape(r.paper) = << <<>>, DeepTree >>

\* the children list of node k of a Paper, 0 being the Paper itself
ChildrenOf(paper, k) ==
  IF k = 0 THEN paper.children ELSE paper.nodes[k].children

ParagraphsOf(paper, k) ==
  IF k = 0 THEN paper.paragraphs ELSE paper.nodes[k].paragraphs

\* the places << k, i >> where Section id stands in a children list
PlacesOf(paper, id) ==
  { p \in (0..Len(paper.nodes)) \X (1..Len(paper.nodes)) :
      /\ p[2] <= Len(ChildrenOf(paper, p[1]))
      /\ ChildrenOf(paper, p[1])[p[2]] = id }

\* following the father links from id reaches the Paper within n hops
RECURSIVE ReachesPaper(_, _, _)
ReachesPaper(paper, id, n) ==
  \/ id = 0
  \/ /\ n > 0
     /\ id \in 1..Len(paper.nodes)
     /\ ReachesPaper(paper, paper.nodes[id].father, n - 1)

IsTree(paper) ==
  /\ \A k \in 0..Len(paper.nodes) :
       /\ \A i \in 1..Len(ChildrenOf(paper, k)) :
            /\ ChildrenOf(paper, k)[i] \in 1..Len(paper.nodes)
            /\ paper.nodes[ChildrenOf(paper, k)[i]].father = k
       /\ \A j \in 1..Len(ParagraphsOf(paper, k)) :
            ParagraphsOf(paper, k)[j].father = k
  /\ \A id \in 1..Len(paper.nodes) :
       /\ Cardinality(PlacesOf(paper, id)) = 1
       /\ ReachesPaper(paper, id, Len(paper.nodes))

\* C16: in the Document a parse returns, every Section stands in exactly
\* one children list, once, and that list is its father's; the father links
\* lead from every Section to the Document; and every Paragraph's father is
\* the node whose paragraph list holds it.
C16_ParentChildIsTree == \A r \in AllResults : IsTree(r.paper)

\* a Document with two top-level Sections and a Section with a paragraph
\* two levels down
C16_Witness ==
  \E r \in AllResults :
    /\ Len(r.paper.children) >= 2
    /\ \E id \in 1..Len(r.paper.nodes) :
         /\ Depth(r.paper, id) >= 2
         /\ r.paper.nodes[id].paragraphs # <<>>

\* C17: in a Document built in numbered mode, every Section built from a
\* block with an address sits as many father hops below the Document as the
\* address is long, whatever the order of the addresses.
C17_DepthIsAddressLengthAnyStream ==
  \A r \in AllResults :
    (~ r.raised /\ r.paper.has_section_index) =>
      \A id \in 1..Len(r.paper.nodes) :
        r.paper.nodes[id].numbers # <<>> =>
          Depth(r.paper, id) = Len(r.paper.nodes[id].numbers)

\* the addresses [1], [1,1], [5,3,2], [1,2]: a jump over two levels and a
\* restart
C17_Witness ==
  \E r \in AllResults :
    /\ r.doc = InconsistentDoc
    /\ r.paper.has_section_index
    /\ \E id \in 1..Len(r.paper.nodes) :
         r.paper.nodes[id].numbers = << 5, 3, 2 >> /\ Depth(r.paper, id) = 3
    /\ \E id \in 1..Len(r.paper.nodes) :
         r.paper.nodes[id].numbers = << 1, 2 >> /\ Depth(r.paper, id) = 2

EmptyInput(doc) == ~ doc.body \/ doc.divs = <<>>

\* C19: a call of parse on an input without a body, or with a body that
\* holds no division, raises nothing and returns a Document that has no
\* Section and no paragraph.
C19_EmptyInputIsEmptyDocument ==
  \A t \in Threads : \A i \in 1..Len(results[t]) :
    EmptyInput(results[t][i].doc) =>
      /\ ~ results[t][i].raised
      /\ results[t][i].paper.nodes = <<>>
      /\ results[t][i].paper.children = <<>>
      /\ results[t][i].paper.paragraphs = <<>>

\* the call on a body without a division has returned: pseudo_sections[0]
\* raised IndexError inside the try and the fallback walked no division
C19_Witness ==
  /\ th[1].pc = "idle"
  /\ Len(results[1]) = 1
  /\ results[1][1].doc = Doc(<<>>)
  /\ ~ results[1][1].raised
  /\ results[1][1].fallbacks = 1
  /\ results[1][1].paper = Paper

(***************************************************************************)
(* Skeleton                                                                *)
(***************************************************************************)
\* the text of a marker up to its title, for a Section addressed numbers:
\* "\nSection <dotted address>. "
MarkerOf(numbers) ==
  << "\n", "Section", " " >> \o AddressText(numbers) \o << ".", " " >>

\* a stream of heading blocks that all carry an Address
HeadingStream(doc) ==
  /\ doc.body
  /\ \A d \in 1..Len(doc.divs) : \A b \in 1..Len(doc.divs[d]) :
       doc.divs[d][b].kind = "head" /\ AddressOf(doc.divs[d][b]) # <<>>

\* the markers of the skeleton of result r that were written for a Section
\* built from a heading (a Section made to fill a level has no numbers)
AddressedMarkers(r) ==
  { i \in 1..Len(r.structure) :
      /\ r.structure[i].kind = "marker"
      /\ r.paper.nodes[r.structure[i].of].numbers # <<>> }

\* C20: in the skeleton of the Document of any stream of addressed headings,
\* the marker of every Section built from a heading carries the dotted
\* Address of that heading: a Section addressed [2,1] is marked
\* "Section 2.1.".
C20_MarkerIsAddress ==
  \A t \in Threads : \A k \in 1..Len(results[t]) :
    LET r == results[t][k] IN
    (HeadingStream(r.doc) /\ ~ r.raised) =>
      \A i \in AddressedMarkers(r) :
        IsPrefix(MarkerOf(r.paper.nodes[r.structure[i].of].numbers),
                 r.structure[i].text)

(***************************************************************************)
(* Block Classifier                                                        *)
(***************************************************************************)
\* the child that the call of thread t handles in this step
BlockAt(t) == th[t].doc.divs[th[t].d][th[t].b]

\* the call of thread t handles a child in this step (it goes on to the
\* next child or is left by an exception)
Handles(t) ==
  /\ th[t].pc = "child"
  /\ th[t].b <= Len(th[t].doc.divs[th[t].d])
  /\ th'[t] # th[t]

\* the step makes a new HTMLSection; the step is left by an exception
OpensSection == Len(heap') = Len(heap) + 1

Raises(t) == th[t].pc = "child" /\ th'[t].pc = "idle"

\* the words that are one of the non-section keywords of the specification,
\* in any case
KeywordTokens ==
  {"Table", "table", "Figure", "Theorem", "Proof", "Appendix", "Algorithm"}

\* what follows the address, its period and the blanks at the start of a
\* text: the title
AfterAddress(text) ==
  LET r0 == Drop(Strip(text), AddrLen(Strip(text))) IN
  LStrip(IF r0 # <<>> /\ Head(r0) = "." THEN Tail(r0) ELSE r0)

\* the text, or the title after an address, starts with a keyword
LeadsWithKeyword(blk) ==
  /\ AfterAddress(blk.text) # <<>>
  /\ Head(AfterAddress(blk.text)) \in KeywordTokens

\* C21: a block whose text or title starts with a non-section keyword never
\* opens a Section, whatever address it carries in its attribute or in
\* front of the keyword.
C21_KeywordBlockIsPlain ==
  [][\A t \in Threads :
       (Handles(t) /\ LeadsWithKeyword(BlockAt(t))) => ~ OpensSection]_vars

\* the call of thread t handles a dedicated heading block that carries no
\* parsable address, in its attribute or in its text, while the stack holds
\* an open Section
HandlesUnaddressedHeading(t) ==
  /\ Handles(t)
  /\ BlockAt(t).kind = "head"
  /\ AddressOf(BlockAt(t)) = <<>>
  /\ hier # <<>>

\* C22: a heading block without a parsable address that arrives while a
\* Section is open opens a new Section whose address is the address of the
\* top of the stack followed by 1, and pushes it on the stack above the
\* Section that was open.
C22_UnaddressedHeadingDescends ==
  [][\A t \in Threads :
       HandlesUnaddressedHeading(t) =>
         /\ OpensSection
         /\ heap'[Len(heap')].numbers = heap[Last(hier)].numbers \o << 1 >>
         /\ hier' = Append(hier, Len(heap'))]_vars

\* an ordinary paragraph block whose text is not empty and does not begin
\* with "address, period, blank"
PlainText(blk) ==
  /\ blk.kind = "p"
  /\ Strip(blk.text) # <<>>
  /\ SECTION_NUMBER_PATTERN(Strip(blk.text)) = <<>>

\* the first block of the document is such a paragraph: it arrives before
\* any Section has been opened
LeadingParagraph(doc) ==
  doc.body /\ doc.divs # <<>> /\ doc.divs[1] # <<>> /\ PlainText(doc.divs[1][1])

\* C23: a plain paragraph that arrives before any Section has been opened
\* becomes the first leading paragraph of the Document with its whole text,
\* and makes no Section: a document of that one block has no Section.
C23_LeadingParagraphOfDocument ==
  \A r \in AllResults :
    LeadingParagraph(r.doc) =>
      /\ ~ r.raised
      /\ r.paper.paragraphs # <<>>
      /\ r.paper.paragraphs[1].text = r.doc.divs[1][1].text
      /\ (Flatten(r.doc.divs) = << r.doc.divs[1][1] >> => r.paper.nodes = <<>>)

\* the address at the head of the text of a paragraph, <<>> when the text
\* does not begin with "address, period, blank"
ParagraphAddress(blk) ==
  LET m == SECTION_NUMBER_PATTERN(Strip(blk.text)) IN
  IF m = <<>> THEN <<>> ELSE ParseAddr(m[1])

\* the call of thread t handles, in numbered mode, an ordinary paragraph
\* whose text begins with an address
HandlesNumberedParagraph(t) ==
  /\ Handles(t)
  /\ th[t].hsi
  /\ BlockAt(t).kind = "p"
  /\ ParagraphAddress(BlockAt(t)) # <<>>

\* the relation of the address of the paragraph to the stack it meets
RelationMet(t) ==
  CompareSectionLevels(heap, hier, ParagraphAddress(BlockAt(t)))

\* the paragraph has been taken for a heading: a Section with its address
\* has been opened
TakenForHeading(t) ==
  /\ OpensSection
  /\ heap'[Len(heap')].numbers = ParagraphAddress(BlockAt(t))
  /\ hier' # <<>> /\ Last(hier') = Len(heap')

\* the paragraph has stayed a plain paragraph: no Section is opened, the
\* stack is as it was and the call goes on
StaysPlain(t) ==
  /\ ~ OpensSection
  /\ hier' = hier
  /\ ~ Raises(t)

HandlesPlainParagraph(t) ==
  /\ Handles(t)
  /\ BlockAt(t).kind = "p"
  /\ BlockAt(t).text # <<>>
  /\ \/ ParagraphAddress(BlockAt(t)) = <<>>
     \/ RelationMet(t) = 2

\* the whole text of the block has become the last paragraph of a Section
\* that was there before
AttachedWhole(t) ==
  \E i \in 1..Len(heap) :
    heap' = [heap EXCEPT ![i].paragraphs = Append(@, BlockAt(t).text)]

\* C25: a paragraph whose text does not begin with an address, or begins
\* with an address INCONSISTENT with the stack, opens no Section and ends no
\* call; when a Section is open the stack stays as it is and the whole text,
\* numeric prefix included, is attached to a Section.
C25_PlainParagraphAttachedWhole ==
  [][\A t \in Threads :
       HandlesPlainParagraph(t) =>
         /\ ~ OpensSection
         /\ ~ Raises(t)
         /\ hier # <<>> => (hier' = hier /\ AttachedWhole(t))]_vars

\* the words of the vocabulary that are longer than a non-section keyword
\* they begin with
KeywordExtensions == {"Tablet", "Figurative", "Definitions", "Examples"}

\* the text the keyword rule of _parse_section_title_from_p looks at: the n
\* attribute of a heading is put in front of its text
RuleText(blk) ==
  IF blk.kind = "head" /\ blk.n # <<>> /\ Strip(blk.n) # <<>>
  THEN Strip(blk.n) \o << " " >> \o blk.text
  ELSE blk.text

\* the call of thread t hands to the keyword rule a block whose first word
\* is longer than a keyword it begins with
HandlesKeywordExtension(t) ==
  /\ Handles(t)
  /\ BlockAt(t).kind \in {"head", "p"}
  /\ BlockAt(t).kind = "p" => th[t].hsi
  /\ Strip(RuleText(BlockAt(t))) # <<>>
  /\ Head(Strip(RuleText(BlockAt(t)))) \in KeywordExtensions

\* C30: the keyword rule matches a keyword as a leading whole word only: a
\* block whose first word is longer than the keyword it begins with is not
\* excluded by the rule.
C30_KeywordIsWholeToken ==
  [][\A t \in Threads :
       HandlesKeywordExtension(t) =>
         ~ StartsWithKeyword(RuleText(BlockAt(t)))]_vars

(***************************************************************************)
(* Hierarchy Tracker                                                       *)
(***************************************************************************)
\* the call of thread t handles, in numbered mode, a heading block that
\* carries an address
HandlesHeading(t) ==
  /\ Handles(t)
  /\ th[t].hsi
  /\ BlockAt(t).kind = "head"
  /\ AddressOf(BlockAt(t)) # <<>>

\* the address of the heading, and what _compare_section_levels makes of it
\* on the stack the heading meets
Candidate(t) == AddressOf(BlockAt(t))

Relate(t) == CompareSectionLevels(heap, hier, Candidate(t))

\* the addresses of the frames of a stack, bottom first
FrameAddresses(h, s) == [i \in 1..Len(s) |-> h[s[i]].numbers]

\* the address of the top frame; the Document, of empty address, is the
\* bottom frame when no Section is open
TopAddress == IF hier = <<>> THEN <<>> ELSE heap[Last(hier)].numbers

\* candidate is one longer than top, begins with top and ends with 0 or 1
IsDescend(top, candidate) ==
  /\ Len(candidate) = Len(top) + 1
  /\ IsPrefix(top, candidate)
  /\ Last(candidate) \in {0, 1}

\* C26: the relation of a candidate to the stack is DESCEND (1) exactly when
\* the candidate is one longer than the address of the top frame, begins
\* with it and ends with 0 or 1, the Document being the top frame of empty
\* address when no Section is open.
C26_DescendIsFirstChild ==
  [][\A t \in Threads :
       HandlesHeading(t) =>
         (Relate(t) = 1 <=> IsDescend(TopAddress, Candidate(t)))]_vars

\* C27: a candidate that is longer than the address of the top frame by two
\* or more is INCONSISTENT (2) with the stack, whatever its components; it
\* is never an ASCEND (-1).
C27_DeepJumpIsInconsistent ==
  [][\A t \in Threads :
       (/\ HandlesHeading(t)
        /\ hier # <<>>
        /\ Len(Candidate(t)) >= Len(TopAddress) + 2) =>
         Relate(t) = 2]_vars

\* a stack is an open chain of ancestors: the address of each frame is a
\* proper prefix of the address of the frame above it
IsChain(addresses) ==
  \A i \in 1..(Len(addresses) - 1) :
    /\ IsPrefix(addresses[i], addresses[i + 1])
    /\ Len(addresses[i]) < Len(addresses[i + 1])

\* C28: after a heading is processed the stack is an open chain of
\* ancestors; a SIBLING heading has taken the place of the frame of its
\* previous sibling.
C28_StackIsAncestorChain ==
  [][\A t \in Threads :
       HandlesHeading(t) => IsChain(FrameAddresses(heap', hier'))]_vars

\* the addresses of the frames of the stack that are a prefix of candidate
PrefixFrames(candidate) ==
  { heap[hier[i]].numbers : i \in { j \in 1..Len(hier) :
       IsPrefix(heap[hier[j]].numbers, candidate) } }

\* the longest of a non-empty set of prefixes of one address
Deepest(S) == CHOOSE a \in S : \A b \in S : Len(b) <= Len(a)

\* C29: when the candidate is INCONSISTENT (2) with the stack and a frame of
\* the stack holds a prefix of it, the frame directly below the frame that
\* is pushed is the deepest such frame.
C29_RecoveryKeepsDeepestPrefix ==
  [][\A t \in Threads :
       (/\ HandlesHeading(t)
        /\ Relate(t) = 2
        /\ PrefixFrames(Candidate(t)) # {}) =>
         /\ Len(hier') >= 2
         /\ heap'[hier'[Len(hier') - 1]].numbers
              = Deepest(PrefixFrames(Candidate(t)))]_vars

(***************************************************************************)
(* Heading addresses                                                       *)
(***************************************************************************)
\* the address in the n attribute of a heading, <<>> when the attribute is
\* missing or does not match the address pattern
AttachedAddress(blk) ==
  LET a == SECTION_PATTERN(RStripDots(Strip(blk.n))) IN
  IF a = <<>> THEN <<>> ELSE ParseAddr(a[1][1])

\* the address at the head of the text of a heading, <<>> when there is none
LeadingAddress(blk) ==
  LET a == SECTION_PATTERN(Strip(blk.text)) IN
  IF a = <<>> THEN <<>> ELSE ParseAddr(a[1][1])

\* the attached address when the attribute holds one, else the address at
\* the head of the text
PreferredAddress(blk) ==
  IF AttachedAddress(blk) # <<>> THEN AttachedAddress(blk)
  ELSE LeadingAddress(blk)

\* C31: a heading block handled in numbered mode opens a Section whose
\* address is the address of its n attribute when the attribute matches the
\* address pattern, and else the address at the head of its text.
C31_AttachedAddressElseLeadingText ==
  [][\A t \in Threads :
       (/\ Handles(t)
        /\ th[t].hsi
        /\ BlockAt(t).kind = "head"
        /\ PreferredAddress(BlockAt(t)) # <<>>) =>
         /\ OpensSection
         /\ heap'[Len(heap')].numbers = PreferredAddress(BlockAt(t))]_vars

\* C31, the attached address alone: a heading whose n attribute matches the
\* address pattern opens a Section with that address.
C31_AttachedAddressUsed ==
  [][\A t \in Threads :
       (/\ Handles(t)
        /\ th[t].hsi
        /\ BlockAt(t).kind = "head"
        /\ AttachedAddress(BlockAt(t)) # <<>>) =>
         /\ OpensSection
         /\ heap'[Len(heap')].numbers = AttachedAddress(BlockAt(t))]_vars

(***************************************************************************)
(* Title back-fill                                                         *)
(***************************************************************************)
\* the call of thread t handles, in numbered mode, a paragraph without
\* address while the Section open in the division has no title
HandlesUnderUntitled(t) ==
  /\ Handles(t)
  /\ th[t].hsi
  /\ BlockAt(t).kind = "p"
  /\ BlockAt(t).text # <<>>
  /\ ParagraphAddress(BlockAt(t)) = <<>>
  /\ th[t].cur # 0
  /\ heap[th[t].cur].title = <<>>

\* the text holds a '.', '!' or '?' that is followed by a blank
HasSentenceBoundary(text) == BoundaryAt(text, 2) # 0

\* C32: under a Section without title, a paragraph is split only when it
\* is the first paragraph of the Section and holds a '.', '!' or '?'
\* followed by a blank: the text after the boundary is then the paragraph
\* and the title is filled in; any other paragraph is attached whole and
\* the title stays empty.
C32_BackFillAtSentenceBoundary ==
  [][\A t \in Threads :
       HandlesUnderUntitled(t) =>
         LET section == heap[th[t].cur]
             after   == heap'[th[t].cur]
             text    == BlockAt(t).text
         IN IF section.paragraphs = <<>> /\ HasSentenceBoundary(text)
            THEN /\ after.title # <<>>
                 /\ after.paragraphs = << SplitSentence(text)[2] >>
            ELSE /\ after.title = <<>>
                 /\ after.paragraphs = Append(section.paragraphs, text)]_vars

(***************************************************************************)
(* Missing levels                                                          *)
(***************************************************************************)
Min(a, b) == IF a <= b THEN a ELSE b

\* the addresses of the headings of a stream of headings, in stream order
StreamAddresses(doc) ==
  [i \in 1..Len(Flatten(doc.divs)) |-> AddressOf(Flatten(doc.divs)[i])]

\* the level at which the tree builder stands when it meets address b after
\* address a, having started the descent at level start: the deepest level
\* L, not below b, that is the top level or at which b continues a
StandLevel(a, start, b) ==
  LET Stands(L) == L = 1 \/ b[L - 1] = a[L - 1]
      top == Min(start, Len(b))
  IN CHOOSE L \in 1..top :
       Stands(L) /\ \A M \in (L + 1)..top : ~ Stands(M)

\* the level at which the builder stands for the i-th heading, and the
\* number of levels between it and the heading
StandsAt(addrs, i) ==
  IF i = 1 THEN 1
  ELSE StandLevel(addrs[i - 1], Len(addrs[i - 1]) + 1, addrs[i])

Missing(addrs, i) == Len(addrs[i]) - StandsAt(addrs, i)

\* the place in paper.nodes of the Section of the i-th heading when every
\* heading is preceded by a Section for each of its missing levels
RECURSIVE PlaceOf(_, _)
PlaceOf(addrs, i) ==
  IF i = 0 THEN 0 ELSE PlaceOf(addrs, i - 1) + Missing(addrs, i) + 1

RECURSIVE IsAncestorOrSelf(_, _, _)
IsAncestorOrSelf(paper, f, id) ==
  \/ f = id
  \/ id # 0 /\ IsAncestorOrSelf(paper, f, paper.nodes[id].father)

\* the Section of the i-th heading sits below a chain of Missing(addrs, i)
\* Sections without name, which hangs from the Section at which the builder
\* stood: an ancestor of the Section of the heading before, or that Section
MissingLevelsFilled(paper, addrs, i) ==
  LET place == PlaceOf(addrs, i)
      k     == Missing(addrs, i)
      f     == paper.nodes[place - k].father
  IN /\ paper.nodes[place].numbers = addrs[i]
     /\ \A j \in 1..k :
          /\ paper.nodes[place - j].name = <<>>
          /\ paper.nodes[place - j].numbers = <<>>
          /\ paper.nodes[place - j + 1].father = place - j
     /\ f <= PlaceOf(addrs, i - 1)
     /\ Depth(paper, f) = StandsAt(addrs, i) - 1
     /\ IsAncestorOrSelf(paper, f, PlaceOf(addrs, i - 1))

\* C33: in the Document built from a stream of headings with addresses, a
\* heading that is k levels deeper than the level at which the builder
\* stands is the child of the last of a chain of exactly k Sections without
\* name made below the current father, and no other Section is made.
C33_MissingLevelsAreFilled ==
  \A r \in AllResults :
    (HeadingStream(r.doc) /\ ~ r.raised /\ r.fallbacks = 0) =>
      LET addrs == StreamAddresses(r.doc) IN
      /\ Len(r.paper.nodes) = PlaceOf(addrs, Len(addrs))
      /\ \A i \in 1..Len(addrs) : MissingLevelsFilled(r.paper, addrs, i)

\* the headings 1 and 1.1.1: one Section without name between the two
C33_Witness ==
  \E r \in AllResults :
    /\ StreamAddresses(r.doc) = << << 1 >>, << 1, 1, 1 >> >>
    /\ ~ r.raised /\ r.fallbacks = 0
    /\ Len(r.paper.nodes) = 3
    /\ r.paper.nodes[2].name = <<>>
    /\ r.paper.nodes[2].father = 1
    /\ r.paper.nodes[3].father = 2
    /\ r.paper.nodes[3].numbers = << 1, 1, 1 >>

(***************************************************************************)
(* Unnumbered mode                                                         *)
(***************************************************************************)
\* the places of the heading blocks in a stream of blocks
HeadPlaces(blocks) == { i \in 1..Len(blocks) : blocks[i].kind = "head" }

\* the first heading block of the stream carries no address and is met
\* while no Section is open: the blocks before it are empty paragraphs or
\* blocks that are neither headings nor paragraphs
UnnumberedStart(blocks) ==
  /\ HeadPlaces(blocks) # {}
  /\ LET h == CHOOSE i \in HeadPlaces(blocks) :
                 \A j \in HeadPlaces(blocks) : i <= j
     IN /\ AddressOf(blocks[h]) = <<>>
        /\ \A i \in 1..(h - 1) :
             blocks[i].kind = "other" \/ blocks[i].text = <<>>

\* the heading blocks of the stream, in stream order
RECURSIVE HeadsOf(_)
HeadsOf(blocks) ==
  IF blocks = <<>> THEN <<>>
  ELSE IF Head(blocks).kind = "head"
       THEN << Head(blocks) >> \o HeadsOf(Tail(blocks))
       ELSE HeadsOf(Tail(blocks))

\* C34: when the first heading block, met on a fresh parser while no
\* Section is open, carries no address, every heading block of the stream,
\* with or without address and in whatever division, is a Section that is a
\* direct child of the Document, in stream order, and no Section has a
\* child Section.
C34_UnnumberedModeIsFlat ==
  \A r \in AllResults :
    (r.start = <<>> /\ r.doc.body /\ UnnumberedStart(Flatten(r.doc.divs))) =>
      LET heads == HeadsOf(Flatten(r.doc.divs)) IN
      /\ ~ r.raised
      /\ r.fallbacks = 0
      /\ Len(r.paper.nodes) = Len(heads)
      /\ r.paper.children = [i \in 1..Len(heads) |-> i]
      /\ \A i \in 1..Len(heads) :
           /\ r.paper.nodes[i].name = heads[i].text
           /\ r.paper.nodes[i].father = 0
           /\ r.paper.nodes[i].children = <<>>

\* a heading without address, then the headings 1 and 1.1 in a division of
\* their own: three Sections below the Document
C34_Witness ==
  \E r \in AllResults :
    /\ r.doc = Doc(<< << Blk("head", <<>>, Introduction) >>,
                       << Blk("head", << "1" >>, Introduction),
                          Blk("head", << "1", ".", "1" >>, Background) >> >>)
    /\ ~ r.raised
    /\ r.paper.children = << 1, 2, 3 >>
    /\ r.paper.nodes[3].name = Background
    /\ r.paper.nodes[3].father = 0

(***************************************************************************)
(* Order of the skeleton                                                   *)
(***************************************************************************)
IsSuffix(a, b) == Len(a) <= Len(b) /\ a = SubSeq(b, Len(b) - Len(a) + 1, Len(b))

\* the paragraph records of a skeleton, in its order
RECURSIVE RecordsOf(_)
RecordsOf(items) ==
  IF items = <<>> THEN <<>>
  ELSE IF Head(items).kind = "text"
       THEN << Head(items) >> \o RecordsOf(Tail(items))
       ELSE RecordsOf(Tail(items))

\* the paragraph records i.. can be given blocks after block j they were
\* made from, one block each and in the order of the stream: the text of a
\* record is the text of its block or the end of it
RECURSIVE Embeds(_, _, _, _)
Embeds(records, i, blocks, j) ==
  \/ i > Len(records)
  \/ \E k \in (j + 1)..Len(blocks) :
       /\ IsSuffix(records[i].text, blocks[k].text)
       /\ Embeds(records, i + 1, blocks, k)

\* the place of the last marker before item i, 0 when there is none
RECURSIVE MarkerBefore(_, _)
MarkerBefore(items, i) ==
  IF i = 0 THEN 0
  ELSE IF items[i].kind = "marker" THEN i
  ELSE MarkerBefore(items, i - 1)

\* Sections are numbered in paper.nodes in the order in which they are made
MarkersInOrderOpened(items) ==
  \A i \in 1..Len(items) : \A j \in (i + 1)..Len(items) :
    (items[i].kind = "marker" /\ items[j].kind = "marker") =>
      items[i].of < items[j].of

\* a paragraph record belongs to the Section of the last marker before it,
\* and to the Document when no marker comes before it
ParagraphsFollowTheirMarker(items) ==
  \A i \in 1..Len(items) :
    items[i].kind = "text" =>
      items[i].of = (IF MarkerBefore(items, i) = 0 THEN 0
                     ELSE items[MarkerBefore(items, i)].of)

\* C35: the skeleton of the Document of a call on a fresh parser keeps the
\* order of the stream: the markers come in the order in which their
\* Sections were made, every paragraph record follows the marker of the
\* Section that was the last one made when it was attached, and the
\* paragraph records come in the order of the blocks they were made from;
\* after the fallback the records are the texts of the blocks, in order.
C35_SkeletonKeepsStreamOrder ==
  \A r \in AllResults :
    (r.start = <<>> /\ r.doc.body /\ ~ r.raised) =>
      LET blocks == Flatten(r.doc.divs) IN
      /\ MarkersInOrderOpened(r.structure)
      /\ ParagraphsFollowTheirMarker(r.structure)
      /\ IF r.fallbacks = 0
         THEN Embeds(RecordsOf(r.structure), 1, blocks, 0)
         ELSE r.structure =
                [i \in 1..Len(blocks) |->
                   [kind |-> "text", of |-> 0,
                    text |-> << " " >> \o blocks[i].text]]

\* the skeleton of the example stream: three markers, each followed by the
\* paragraph of its Section
C35_Witness ==
  \E r \in AllResults :
    /\ r.doc = ExampleDoc
    /\ ~ r.raised
    /\ Len(r.structure) = 6
    /\ [i \in 1..6 |-> r.structure[i].kind]
         = << "marker", "text", "marker", "text", "marker", "text" >>
    /\ [i \in 1..6 |-> r.structure[i].of] = << 1, 1, 2, 2, 3, 3 >>
    /\ r.structure[2].text = TextA
    /\ r.structure[4].text = TextB
    /\ r.structure[6].text = TextC

(***************************************************************************)
(* Loss of blocks                                                          *)
(***************************************************************************)
\* the words of a text: its tokens other than blanks, punctuation and digits
WordsOf(text) ==
  { text[i] : i \in 1..Len(text) } \ ({ " ", ".", "!", "?" } \cup Digits)

\* the words of the texts of a list of Paragraphs
WordsOfParagraphs(paragraphs) ==
  UNION { WordsOf(paragraphs[i].text) : i \in 1..Len(paragraphs) }

\* the words held by the Document: in the titles of its Sections and in its
\* Paragraphs, those of the Sections and its own
DocumentWords(paper) ==
  WordsOfParagraphs(paper.paragraphs)
    \cup UNION { WordsOf(paper.nodes[i].name)
                   \cup WordsOfParagraphs(paper.nodes[i].paragraphs) :
                 i \in 1..Len(paper.nodes) }

\* C36: no block is lost: in the Document returned by a call on a fresh
\* parser, every word of the text of every heading, paragraph or other
\* block is in the title of a Section or in a Paragraph.
C36_NoBlockIsLost ==
  \A r \in AllResults :
    (r.start = <<>> /\ r.doc.body /\ ~ r.raised) =>
      \A d \in 1..Len(r.doc.divs) : \A b \in 1..Len(r.doc.divs[d]) :
        WordsOf(r.doc.divs[d][b].text) \subseteq DocumentWords(r.paper)

(***************************************************************************)
(* async_request_template and its retries (src/session_manager.py)         *)
(*                                                                         *)
(* request.pc      idle, running (an attempt has failed and another one    *)
(*                 follows), returned or raised                            *)
(* request.errors  the exceptions of the attempts that have failed         *)
(***************************************************************************)
\* the exceptions an attempt can end with: a class and, for a
\* ClientResponseError raised by resp.raise_for_status(), the HTTP status
Exc(class, status) == [class |-> class, status |-> status]

Statuses == {400, 401, 403, 404, 429, 500}

NetworkExceptions ==
  { Exc("ClientConnectionError", 0), Exc("ServerDisconnectedError", 0),
    Exc("TimeoutError", 0), Exc("JSONDecodeError", 0) }
    \cup { Exc("ClientResponseError", s) : s \in Statuses }

\* the classes an exception of the class is an instance of: in aiohttp
\* ClientResponseError, ClientConnectionError and ServerDisconnectedError
\* derive from ClientError
ClassesOf(class) ==
  IF class \in {"ClientResponseError", "ClientConnectionError"}
  THEN {class, "ClientError"}
  ELSE IF class = "ServerDisconnectedError"
  THEN {class, "ClientConnectionError", "ClientError"}
  ELSE {class}

isinstance(exception, class) == class \in ClassesOf(exception.class)

RETRY_EXCEPTION_TYPES ==
  {"ClientError", "TimeoutError", "ServerDisconnectedError", "JSONDecodeError"}

should_retry(exception) ==
  IF \E x \in RETRY_EXCEPTION_TYPES : isinstance(exception, x) THEN TRUE
  ELSE IF /\ isinstance(exception, "ClientResponseError")
          /\ exception.status \notin {400, 401, 403, 404}
  THEN TRUE
  ELSE FALSE

\* stop=stop_after_attempt(3)
stop_after_attempt == 3

\* what one attempt can end with: SessionManager.get() raises RuntimeError
\* when no session is set, else the request returns or fails
Outcomes ==
  IF session.global = 0 THEN { Exc("RuntimeError", 0) }
  ELSE { Exc("returned", 0) } \cup NetworkExceptions

\* one attempt of async_request_template and what the retry decorator does
\* with its outcome (reraise=True)
Attempt ==
  /\ request.pc \in {"idle", "running"}
  /\ \E outcome \in Outcomes :
       IF outcome.class = "returned"
       THEN request' = [request EXCEPT !.pc = "returned"]
       ELSE LET errors == Append(request.errors, outcome) IN
            request' =
              [pc |-> IF ~ should_retry(outcome) THEN "raised"
                      ELSE IF Len(errors) >= stop_after_attempt THEN "raised"
                      ELSE "running",
               errors |-> errors]
  /\ UNCHANGED << parser_vars, session, proc >>

\* a session set by SessionManager.init()
OneSession ==
  [global |-> 1, closed |-> << FALSE >>, log |-> << "init" >>,
   got |-> [raised |-> FALSE, value |-> 0]]

\* one call of async_request_template, before or after SessionManager.init()
InitRequest ==
  /\ heap = <<>>
  /\ hier = <<>>
  /\ th = [t \in Threads |-> Idle]
  /\ results = [t \in Threads |-> <<>>]
  /\ calls = [t \in Threads |-> <<>>]
  /\ element = Element("p", Absent, Absent, <<>>)
  /\ extracted = Absent
  /\ session \in { NoSession, OneSession }
  /\ request = NoRequest
  /\ proc = NoProcess

SpecRequest == InitRequest /\ [][Attempt]_vars

\* the number of attempts made so far
Attempts ==
  Len(request.errors) + (IF request.pc = "returned" THEN 1 ELSE 0)

\* the failed attempt i was followed by another attempt
Retried(i) ==
  i < Len(request.errors) \/ (i = Len(request.errors) /\ request.pc # "raised")

\* C37: a call makes at most 3 attempts, and an attempt that fails with the
\* HTTP status 400, 401, 403 or 404 is never followed by another attempt.
C37_ClientErrorsAreNotRetried ==
  /\ Attempts <= 3
  /\ \A i \in 1..Len(request.errors) :
       (/\ request.errors[i].class = "ClientResponseError"
        /\ request.errors[i].status \in {400, 401, 403, 404}) =>
         ~ Retried(i)

(***************************************************************************)
(* SessionManager (src/session_manager.py), called as main does: one call  *)
(* after another                                                           *)
(***************************************************************************)
\* the number of calls made to SessionManager in one run
MaxCalls == 5

\* init that makes a session whether or not one is set
SessionManager_init_always ==
  /\ Len(session.log) < MaxCalls
  /\ session' =
       [session EXCEPT !.closed = Append(session.closed, FALSE),
                       !.global = Len(session.closed) + 1,
                       !.log = Append(session.log, "init")]
  /\ UNCHANGED << parser_vars, request, proc >>

SessionManager_init ==
  /\ Len(session.log) < MaxCalls
  /\ session' =
       IF session.global = 0
       THEN [session EXCEPT !.closed = Append(session.closed, FALSE),
                            !.global = Len(session.closed) + 1,
                            !.log = Append(session.log, "init")]
       ELSE [session EXCEPT !.log = Append(session.log, "init")]
  /\ UNCHANGED << parser_vars, request, proc >>

SessionManager_close ==
  /\ Len(session.log) < MaxCalls
  /\ session' =
       IF session.global # 0 /\ ~ session.closed[session.global]
       THEN [session EXCEPT !.closed[session.global] = TRUE,
                            !.global = 0,
                            !.log = Append(session.log, "close")]
       ELSE [session EXCEPT !.log = Append(session.log, "close")]
  /\ UNCHANGED << parser_vars, request, proc >>

SessionManager_get ==
  /\ Len(session.log) < MaxCalls
  /\ session' =
       IF session.global = 0
       THEN [session EXCEPT !.got = [raised |-> TRUE, value |-> 0],
                            !.log = Append(session.log, "get")]
       ELSE [session EXCEPT !.got = [raised |-> FALSE,
                                     value |-> session.global],
                            !.log = Append(session.log, "get")]
  /\ UNCHANGED << parser_vars, request, proc >>

NextSession ==
  \/ SessionManager_init
  \/ SessionManager_close
  \/ SessionManager_get

\* no parse under way and no call made to SessionManager
InitSession ==
  /\ InitParser
  /\ calls = [t \in Threads |-> <<>>]

SpecSession == InitSession /\ [][NextSession]_vars

\* the sessions made by SessionManager that are open
OpenSessions ==
  { s \in 1..Len(session.closed) : ~ session.closed[s] }

\* an init has happened among the first n calls with no later close
Initialized(n) ==
  \E i \in 1..n :
    /\ session.log[i] = "init"
    /\ \A j \in (i + 1)..n : session.log[j] # "close"

\* the inits made when no init had happened without a later close
FirstInits ==
  { i \in 1..Len(session.log) :
      session.log[i] = "init" /\ ~ Initialized(i - 1) }

\* C38: after any sequence of init, get and close calls at most one session
\* made by SessionManager is open; an init made while a session is set makes
\* no session; and a get returns the current session exactly when an init
\* has happened with no later close, and raises RuntimeError otherwise.
C38_OneSessionAndGet ==
  LET n == Len(session.log) IN
  /\ Cardinality(OpenSessions) <= 1
  /\ Len(session.closed) = Cardinality(FirstInits)
  /\ Initialized(n) <=> session.global # 0
  /\ session.global # 0 => OpenSessions = { session.global }
  /\ (n > 0 /\ session.log[n] = "get") =>
       IF Initialized(n)
       THEN ~ session.got.raised /\ session.got.value = session.global
       ELSE session.got.raised

\* init, init again, get returns the one session; close, and get raises
C38_Witness ==
  /\ session.log = << "init", "init", "get", "close", "get" >>
  /\ session.closed = << TRUE >>
  /\ session.got.raised

(***************************************************************************)
(* process_paper and its URL tasks (src/search.py)                         *)
(***************************************************************************)
\* the number of URLs of a paper
MaxUrls == 3

\* how a URL task that was not cancelled by process_paper can end:
\* try_one_url returns a dict, returns None (also on any Exception, which it
\* swallows), or raises, an exception or CancelledError
Endings == {"result", "nothing", "error", "cancelled"}

Done == Endings

\* tasks = [asyncio.create_task(try_one_url(session, url)) for url in ...]
\* up to the first await of the loop; with no URL the call returns None
process_paper_begin ==
  /\ proc.pc = "idle"
  /\ \E n \in 0..MaxUrls :
       proc' = [proc EXCEPT !.tasks = [i \in 1..n |-> "pending"],
                            !.pc = IF n = 0 THEN "returned" ELSE "loop"]
  /\ UNCHANGED << parser_vars, session, request >>

\* a URL task ends on its own
try_one_url_ends(i) ==
  /\ i \in 1..Len(proc.tasks)
  /\ proc.tasks[i] = "pending"
  /\ \E ending \in Endings :
       proc' = [proc EXCEPT !.tasks[i] = ending,
                            !.completed = Append(proc.completed, i)]
  /\ UNCHANGED << parser_vars, session, request >>

\* a URL task on which cancel() was called ends: CancelledError is raised
\* at its await and nothing in try_one_url catches it
try_one_url_cancelled(i) ==
  /\ i \in 1..Len(proc.tasks)
  /\ proc.tasks[i] = "cancelling"
  /\ proc' = [proc EXCEPT !.tasks[i] = "cancelled",
                           !.completed = Append(proc.completed, i)]
  /\ UNCHANGED << parser_vars, session, request >>

\* other_task.cancel() for every task that is not done
CancelOthers(tasks) ==
  [j \in 1..Len(tasks) |->
     IF tasks[j] \in Done THEN tasks[j] ELSE "cancelling"]

\* the loop with no try around the await: a task that failed ends the loop
process_paper_next_no_try ==
  /\ proc.pc = "loop"
  /\ proc.taken < Len(proc.completed)
  /\ LET task == proc.completed[proc.taken + 1] IN
     IF proc.tasks[task] = "result"
     THEN proc' = [proc EXCEPT !.taken = proc.taken + 1,
                               !.pending = { j \in 1..Len(proc.tasks) :
                                               proc.tasks[j] \notin Done },
                               !.tasks = CancelOthers(proc.tasks),
                               !.ret = task,
                               !.pc = "gather"]
     ELSE proc' = [proc EXCEPT !.taken = proc.taken + 1,
                               !.tasks =
                                 IF \/ proc.taken + 1 = Len(proc.tasks)
                                    \/ proc.tasks[task] = "error"
                                 THEN CancelOthers(proc.tasks)
                                 ELSE proc.tasks,
                               !.pc = IF \/ proc.taken + 1 = Len(proc.tasks)
                                         \/ proc.tasks[task] = "error"
                                      THEN "gather" ELSE "loop"]
  /\ UNCHANGED << parser_vars, session, request >>

\* the loop awaits the next completed task: a truthy result cancels the
\* tasks not done and is returned through finally; anything else continues
\* the loop, which goes to finally after the last task
process_paper_next ==
  /\ proc.pc = "loop"
  /\ proc.taken < Len(proc.completed)
  /\ LET task == proc.completed[proc.taken + 1] IN
     IF proc.tasks[task] = "result"
     THEN proc' = [proc EXCEPT !.taken = proc.taken + 1,
                               !.pending = { j \in 1..Len(proc.tasks) :
                                               proc.tasks[j] \notin Done },
                               !.tasks = CancelOthers(proc.tasks),
                               !.ret = task,
                               !.pc = "gather"]
     ELSE proc' = [proc EXCEPT !.taken = proc.taken + 1,
                               !.tasks =
                                 IF proc.taken + 1 = Len(proc.tasks)
                                 THEN CancelOthers(proc.tasks)
                                 ELSE proc.tasks,
                               !.pc = IF proc.taken + 1 = Len(proc.tasks)
                                      THEN "gather" ELSE "loop"]
  /\ UNCHANGED << parser_vars, session, request >>

\* finally without the gather: the call returns at once
process_paper_gather_no_wait ==
  /\ proc.pc = "gather"
  /\ proc' = [proc EXCEPT !.pc = "returned"]
  /\ UNCHANGED << parser_vars, session, request >>

\* await asyncio.gather(*tasks, return_exceptions=True) ends when every
\* task is done, and the call returns
process_paper_gather ==
  /\ proc.pc = "gather"
  /\ \A i \in 1..Len(proc.tasks) : proc.tasks[i] \in Done
  /\ proc' = [proc EXCEPT !.pc = "returned"]
  /\ UNCHANGED << parser_vars, session, request >>

NextProcess ==
  \/ process_paper_begin
  \/ \E i \in 1..MaxUrls : try_one_url_ends(i)
  \/ \E i \in 1..MaxUrls : try_one_url_cancelled(i)
  \/ process_paper_next
  \/ process_paper_gather

\* one call of process_paper with the session of SessionManager
InitProcess ==
  /\ heap = <<>>
  /\ hier = <<>>
  /\ th = [t \in Threads |-> Idle]
  /\ results = [t \in Threads |-> <<>>]
  /\ calls = [t \in Threads |-> <<>>]
  /\ element = Element("p", Absent, Absent, <<>>)
  /\ extracted = Absent
  /\ session = OneSession
  /\ request = NoRequest
  /\ proc = NoProcess

SpecProcess == InitProcess /\ [][NextProcess]_vars

\* the places in the order of completion of the tasks that ended with a
\* truthy result
Successes ==
  { k \in 1..Len(proc.completed) : proc.tasks[proc.completed[k]] = "result" }

\* the task that was first to complete with a truthy result
FirstSuccess ==
  proc.completed[CHOOSE k \in Successes : \A l \in Successes : k <= l]

\* C39: when process_paper returns, it returns the result of the first URL
\* task to complete with a truthy result; it returns None only when every
\* URL task failed, was cancelled or returned nothing; and a task that
\* failed before a successful one completed does not make it return None.
C39_FirstSuccessIsReturned ==
  proc.pc = "returned" =>
    /\ IF Successes = {} THEN proc.ret = 0 ELSE proc.ret = FirstSuccess
    /\ proc.ret = 0 =>
         \A i \in 1..Len(proc.tasks) :
           proc.tasks[i] \in {"nothing", "error", "cancelled"}
    /\ \A k \in Successes :
         (\E j \in 1..(k - 1) : proc.tasks[proc.completed[j]] = "error") =>
           proc.ret # 0

\* a task fails, a later one succeeds and its result is returned
C39_Witness ==
  /\ proc.pc = "returned"
  /\ Len(proc.completed) = 3
  /\ proc.tasks[proc.completed[1]] = "error"
  /\ proc.tasks[proc.completed[2]] = "result"
  /\ proc.ret = proc.completed[2]

\* C40: when process_paper returns, every URL task it created is done, and
\* every task that was not done when the first success was found is
\* cancelled.
C40_NoTaskLeftRunning ==
  proc.pc = "returned" =>
    /\ \A i \in 1..Len(proc.tasks) : proc.tasks[i] \in Done
    /\ \A i \in proc.pending : proc.tasks[i] = "cancelled"

\* the first task succeeds while the two others are pending
C40_Witness ==
  /\ proc.pc = "returned"
  /\ proc.ret # 0
  /\ Cardinality(proc.pending) = 2
  /\ \A i \in proc.pending : proc.tasks[i] = "cancelled"

====
